---- MODULE Spec2Model ----
(***************************************************************************)
(* Verification model of the extraction pipeline's orchestration core:     *)
(*   - RateLimiter.acquire (ai-extractor / grok-extractor)                 *)
(*   - ErrorHandler.withRetry and the error classification                 *)
(*   - BatchProcessor.processAll / processSinglePDF and ShutdownHandler    *)
(* Each part has its own next-state relation and specification; the parts  *)
(* share one Init.                                                         *)
(***************************************************************************)
EXTENDS Integers, Sequences, FiniteSets, TLC

VARIABLES
  \* ---- rate limiter part ----
  requestTimes,      \* AIExtractor.rateLimiter.requestTimes (one shared instance)
  grokRequestTimes,  \* per task: requestTimes of the GrokExtractor it constructed
  tpc,               \* per task: position inside processSinglePDF / acquire
  wake,              \* per task: milliseconds left on its setTimeout
  started,           \* items of the run handed to a task so far
  waited,            \* per task: its current acquire() has slept at least once
  admitted,          \* per provider: admissions recorded in the last minute
  \* ---- retry controller part ----
  rpc,               \* position of the withRetry call
  fn,                \* the operation passed to withRetry
  fnError,           \* the message of the error the operation fails with
  fnFailures,        \* how many leading invocations of the operation fail
  maxRetries,        \* this.config.maxRetries
  currentAttempt,    \* withRetry's currentAttempt parameter
  invocations,       \* times fn() has been invoked by this withRetry call
  delays,            \* the backoff delays slept so far, in order
  config,            \* the RetryConfig the ErrorHandler was constructed with
  retryResult,       \* what withRetry returned or threw
  itemResult,        \* what processSinglePDF made of it
  \* ---- batch orchestrator part ----
  bpc,               \* position of processAll: idle, awaiting, done, exited
  dbStatus,          \* products.extraction_status by product code
  completedAtStart,  \* the items marked completed when processAll filtered
  options,           \* the ProcessingOptions of the run
  pdfsToProcess,     \* processAll's pdfsToProcess after filter and limit
  i,                 \* processAll's loop index
  successCount,      \* processAll's successCount
  failureCount,      \* processAll's failureCount
  task,              \* per item: state of its processSinglePDF promise
  attempts,          \* per item: times processSinglePDF was started on it
  isShuttingDown,    \* ShutdownHandler.isShuttingDown
  summary,           \* the ProcessingResult the run returned
  entry,             \* the entry point of the run: processAll or retryFailed
  metadata,          \* retryFailed's metadata list
  pos,               \* retryFailed's place in its for-of loop
  failedAtStart,     \* the items marked failed when retryFailed was called
  \* ---- one item through processSinglePDF and the repository ----
  ipc,               \* position of processSinglePDF on the item
  extractionResult,  \* what withRetry returned for the item
  product,           \* the item's row of the products table
  reviewEntry,       \* the item's row of human_review_queue
  itemOutcome,       \* how the processSinglePDF promise settled
  grokResult,        \* what verifySupplementFacts returned for the item
  \* ---- strict validation and salvage ----
  caller,            \* the extractor method that validated a value
  jsonData,          \* the recovered (or combined) value it validated
  debugFile,         \* the failed-extraction file of the call in LOG_DIR
  extraction,        \* the ExtractionResult it returned
  \* ---- recovery cascade ----
  parser,            \* the response parser that ran
  response,          \* the response text it was given
  parseResult,       \* what it returned
  \* ---- review queue ----
  qpc,               \* position of the addToReviewQueue call
  findings,          \* the discrepancies and validation warnings it was given
  queueEntry,        \* the human_review_queue row of the product
  \* ---- comparison engine ----
  cpc,               \* position of the compareSupplementFacts call
  compared,          \* the two supplement-facts structures it was given
  comparison,        \* the ComparisonResult it returned
  \* ---- brace scanner and repairs, character by character ----
  jpc,               \* the json-extractor function that ran
  input,             \* the text (and start index) it was given
  output             \* what it returned

rlVars == <<requestTimes, grokRequestTimes, tpc, wake, started, waited, admitted>>

retryVars == <<rpc, fn, fnError, fnFailures, maxRetries, currentAttempt,
               invocations, delays, retryResult, itemResult, config>>

batchVars == <<bpc, dbStatus, completedAtStart, options, pdfsToProcess, i,
               successCount, failureCount, task, attempts, isShuttingDown,
               summary, entry, metadata, pos, failedAtStart>>

itemVars == <<ipc, extractionResult, product, reviewEntry, itemOutcome,
              grokResult>>
salvageVars == <<caller, jsonData, extraction, debugFile>>

cascadeVars == <<parser, response, parseResult>>

queueVars == <<qpc, findings, queueEntry>>

compareVars == <<cpc, compared, comparison>>

textVars == <<jpc, input, output>>

pureVars == <<queueVars, compareVars, textVars>>

vars == <<rlVars, retryVars, batchVars, itemVars, salvageVars, cascadeVars,
          pureVars>>

----------------------------------------------------------------------------
(* Bounds of the model *)

NumTasks == 2              \* concurrent item tasks
NumItems == 3              \* items of the run
RateLimitPerMinute == 1    \* env.RATE_LIMIT_PER_MINUTE of the run
GrokRateLimitPerMinute == 1 \* env.GROK_RATE_LIMIT_PER_MINUTE of the run

Tasks == 1..NumTasks

----------------------------------------------------------------------------
(* RateLimiter *)

\* Timestamps are kept relative to the current instant: Date.now() is the
\* origin, a recorded timestamp t is stored as t - Date.now() (<= 0), and
\* Tick shifts every stored timestamp and timer.
DateNow == 0

WindowMs == 60000
BufferMs == 100

\* The amounts by which the clock advances between two steps of the tasks.
TickSteps == {30000, 30100}

\* Timestamps older than this are indistinguishable to acquire(): they fail
\* the filter and give waitTime <= 0.
Floor == DateNow - WindowMs - BufferMs

Max(a, b) == IF a >= b THEN a ELSE b

\* this.requestTimes.filter((time) => time > oneMinuteAgo)
Purge(times) ==
  LET oneMinuteAgo == DateNow - WindowMs
  IN  SelectSeq(times, LAMBDA time : time > oneMinuteAgo)

\* 60000 - (now - oldestRequest) + 100
WaitTime(times) == WindowMs - (DateNow - times[1]) + BufferMs

\* Mutant: the ceiling test is off by one.
AcquireStepOffByOne(times, maxRequestsPerMinute) ==
  LET kept == Purge(times)
  IN  IF Len(kept) > maxRequestsPerMinute /\ WaitTime(kept) > 0
      THEN [admit |-> FALSE, times |-> kept, waitTime |-> WaitTime(kept)]
      ELSE [admit |-> TRUE, times |-> Append(kept, DateNow), waitTime |-> 0]

\* Mutant: the list is never purged and the wait is taken whatever its sign.
AcquireStepNoPurge(times, maxRequestsPerMinute) ==
  IF Len(times) >= maxRequestsPerMinute
  THEN [admit |-> FALSE, times |-> times, waitTime |-> Max(0, WaitTime(times))]
  ELSE [admit |-> TRUE, times |-> Append(times, DateNow), waitTime |-> 0]

\* The synchronous part of acquire(): purge, check, then either record the
\* admission or compute the wait. No await separates these statements.
AcquireStep(times, maxRequestsPerMinute) ==
  LET kept == Purge(times)
  IN  IF Len(kept) >= maxRequestsPerMinute /\ WaitTime(kept) > 0
      THEN [admit |-> FALSE, times |-> kept, waitTime |-> WaitTime(kept)]
      ELSE [admit |-> TRUE, times |-> Append(kept, DateNow), waitTime |-> 0]

\* A task takes the next item: processSinglePDF -> extractProductInfo ->
\* this.rateLimiter.acquire() on the extractor the BatchProcessor owns.
StartItem(t) ==
  /\ tpc[t] = "idle"
  /\ started < NumItems
  /\ started' = started + 1
  /\ tpc' = [tpc EXCEPT ![t] = "acquireClaude"]
  /\ UNCHANGED <<requestTimes, grokRequestTimes, wake, waited, admitted>>
  /\ UNCHANGED <<retryVars, batchVars, itemVars, salvageVars, cascadeVars, pureVars>>

\* acquire() on the shared AIExtractor limiter.
AcquireClaude(t) ==
  /\ tpc[t] = "acquireClaude"
  /\ LET r == AcquireStep(requestTimes, RateLimitPerMinute)
     IN  /\ requestTimes' = r.times
         /\ IF r.admit
            THEN /\ tpc' = [tpc EXCEPT ![t] = "newGrok"]
                 /\ admitted' = [admitted EXCEPT !.claude = Append(@, DateNow)]
                 /\ UNCHANGED <<wake, waited>>
            ELSE /\ tpc' = [tpc EXCEPT ![t] = "sleepClaude"]
                 /\ wake' = [wake EXCEPT ![t] = r.waitTime]
                 /\ waited' = [waited EXCEPT ![t] = TRUE]
                 /\ admitted' = admitted
  /\ UNCHANGED <<grokRequestTimes, started>>
  /\ UNCHANGED <<retryVars, batchVars, itemVars, salvageVars, cascadeVars, pureVars>>

\* const grokExtractor = new GrokExtractor(): a fresh RateLimiter per item.
NewGrokExtractor(t) ==
  /\ tpc[t] = "newGrok"
  /\ grokRequestTimes' = [grokRequestTimes EXCEPT ![t] = <<>>]
  /\ tpc' = [tpc EXCEPT ![t] = "acquireGrok"]
  /\ waited' = [waited EXCEPT ![t] = FALSE]
  /\ UNCHANGED <<requestTimes, wake, started, admitted>>
  /\ UNCHANGED <<retryVars, batchVars, itemVars, salvageVars, cascadeVars, pureVars>>

\* verifySupplementFacts -> this.rateLimiter.acquire() on that instance.
AcquireGrok(t) ==
  /\ tpc[t] = "acquireGrok"
  /\ LET r == AcquireStep(grokRequestTimes[t], GrokRateLimitPerMinute)
     IN  /\ grokRequestTimes' = [grokRequestTimes EXCEPT ![t] = r.times]
         /\ IF r.admit
            THEN /\ tpc' = [tpc EXCEPT ![t] = "grokCalled"]
                 /\ admitted' = [admitted EXCEPT !.grok = Append(@, DateNow)]
                 /\ UNCHANGED <<wake, waited>>
            ELSE /\ tpc' = [tpc EXCEPT ![t] = "sleepGrok"]
                 /\ wake' = [wake EXCEPT ![t] = r.waitTime]
                 /\ waited' = [waited EXCEPT ![t] = TRUE]
                 /\ admitted' = admitted
  /\ UNCHANGED <<requestTimes, started>>
  /\ UNCHANGED <<retryVars, batchVars, itemVars, salvageVars, cascadeVars, pureVars>>

\* processSinglePDF returns: its local grokExtractor is unreachable from now on.
FinishItem(t) ==
  /\ tpc[t] = "grokCalled"
  /\ tpc' = [tpc EXCEPT ![t] = "idle"]
  /\ grokRequestTimes' = [grokRequestTimes EXCEPT ![t] = <<>>]
  /\ waited' = [waited EXCEPT ![t] = FALSE]
  /\ UNCHANGED <<requestTimes, wake, started, admitted>>
  /\ UNCHANGED <<retryVars, batchVars, itemVars, salvageVars, cascadeVars, pureVars>>

\* setTimeout fires: return this.acquire()
TimerFires(t) ==
  /\ tpc[t] \in {"sleepClaude", "sleepGrok"}
  /\ wake[t] = 0
  /\ tpc' = [tpc EXCEPT ![t] =
               IF tpc[t] = "sleepClaude" THEN "acquireClaude" ELSE "acquireGrok"]
  /\ UNCHANGED <<requestTimes, grokRequestTimes, wake, started, waited, admitted>>
  /\ UNCHANGED <<retryVars, batchVars, itemVars, salvageVars, cascadeVars, pureVars>>

Shift(times, dt) == [k \in DOMAIN times |-> Max(times[k] - dt, Floor)]

\* The clock advances by dt.
Tick(dt) ==
  /\ requestTimes' = Shift(requestTimes, dt)
  /\ grokRequestTimes' = [t \in Tasks |-> Shift(grokRequestTimes[t], dt)]
  /\ wake' = [t \in Tasks |-> Max(wake[t] - dt, 0)]
  /\ admitted' = [p \in DOMAIN admitted |->
                    SelectSeq(Shift(admitted[p], dt),
                              LAMBDA x : x > DateNow - WindowMs)]
  /\ UNCHANGED <<tpc, started, waited>>
  /\ UNCHANGED <<retryVars, batchVars, itemVars, salvageVars, cascadeVars, pureVars>>

Advance == \E dt \in TickSteps : Tick(dt)

----------------------------------------------------------------------------
(* ErrorHandler: classification, backoff and withRetry *)

MAX_RETRIES == 3
BaseDelay == 1000
MaxDelay == 10000
BackoffMultiplier == 2

\* The configured maxRetries ranges over 1..MaxRetriesLimit.
MaxRetriesLimit == 3
\* An operation fails on its first 0..MaxFailures invocations.
MaxFailures == MaxRetriesLimit + 2

\* An error message is modelled by the set of markers it contains.
ErrorMessages ==
  { {"429"}, {"timed out"}, {"econnrefused"}, {"corrupt"}, {"parse"},
    {"401"}, {}, {"network", "timeout"}, {"validation", "api"} }

Has(msg, markers) == msg \cap markers # {}

\* ErrorHandler.classifyError: the first matching group of markers wins.
ClassifyError(msg) ==
  IF Has(msg, {"rate limit", "429"}) THEN "RATE_LIMIT"
  ELSE IF Has(msg, {"timeout", "timed out"}) THEN "TIMEOUT"
  ELSE IF Has(msg, {"network", "econnrefused", "enotfound"}) THEN "NETWORK"
  ELSE IF Has(msg, {"invalid pdf", "corrupt", "malformed"}) THEN "INVALID_FILE"
  ELSE IF Has(msg, {"validation", "parse"}) THEN "VALIDATION"
  ELSE IF Has(msg, {"api", "401", "403"}) THEN "API_ERROR"
  ELSE "UNKNOWN"

\* ErrorHandler.isRetryable
IsRetryable(msg) ==
  ClassifyError(msg) \in {"RATE_LIMIT", "TIMEOUT", "NETWORK", "API_ERROR"}

RECURSIVE Pow(_, _)
Pow(b, e) == IF e = 0 THEN 1 ELSE b * Pow(b, e - 1)

Min(a, b) == IF a <= b THEN a ELSE b

\* Math.random() * 1000, sampled.
JitterSamples == {0, 500, 999}

\* DEFAULT_RETRY_CONFIG without maxRetries, which the model keeps apart.
DefaultRetryConfig ==
  [baseDelay |-> BaseDelay, maxDelay |-> MaxDelay,
   backoffMultiplier |-> BackoffMultiplier]

\* The configurations an ErrorHandler is constructed with: the default and
\* others with a longer base delay, a lower cap, a larger multiplier; the
\* base delay is below the cap in all of them.
RetryConfigs ==
  [baseDelay : {BaseDelay, 2000}, maxDelay : {MaxDelay, 2500},
   backoffMultiplier : {BackoffMultiplier, 3}]

\* Mutant: the exponential delay is not capped.
CalculateDelayUncapped(attemptNumber) ==
  config.baseDelay * Pow(config.backoffMultiplier, attemptNumber)

\* ErrorHandler.calculateDelay without the jitter
CalculateDelay(attemptNumber) ==
  Min(config.baseDelay * Pow(config.backoffMultiplier, attemptNumber),
      config.maxDelay)

\* Mutant: the exhaustion test is off by one.
RetriesExhaustedOffByOne(attempt, limit) == attempt > limit

\* if (currentAttempt >= this.config.maxRetries) throw error
RetriesExhausted(attempt, limit) == attempt >= limit

\* Whether a failing invocation of the operation rejects (throws) or resolves
\* with a failure result. extractProductInfo and extractProductInfoHybrid
\* wrap their whole body in try/catch and return {success: false, error}.
FnThrows(f) == f = "operation"

\* withRetry(fn, context) is called. processSinglePDF passes the extractor;
\* "operation" stands for any operation that rejects when it fails.
CallWithRetry ==
  /\ rpc = "idle"
  /\ \E f \in {"operation", "extractProductInfo"}, msg \in ErrorMessages,
        n \in 0..MaxFailures, m \in 1..MaxRetriesLimit, c \in RetryConfigs :
       /\ fn' = f
       /\ config' = c
       /\ fnError' = msg
       /\ fnFailures' = n
       /\ maxRetries' = m
  /\ rpc' = "calling"
  /\ currentAttempt' = 0
  /\ invocations' = 0
  /\ delays' = <<>>
  /\ retryResult' = [kind |-> "none"]
  /\ itemResult' = "none"
  /\ UNCHANGED <<rlVars, batchVars, itemVars, salvageVars, cascadeVars, pureVars>>

\* try { return await fn() } catch (error) { ... }: one invocation of the
\* operation settles.
InvokeFn ==
  /\ rpc = "calling"
  /\ invocations' = invocations + 1
  /\ LET fails == invocations + 1 <= fnFailures
     IN  IF ~fails
         THEN /\ rpc' = "returned"
              /\ retryResult' = [kind |-> "value", success |-> TRUE, error |-> {}]
              /\ delays' = delays
         ELSE IF ~FnThrows(fn)
         THEN /\ rpc' = "returned"
              /\ retryResult' = [kind |-> "value", success |-> FALSE, error |-> fnError]
              /\ delays' = delays
         ELSE IF RetriesExhausted(currentAttempt, maxRetries)
         THEN /\ rpc' = "thrown"
              /\ retryResult' = [kind |-> "error", success |-> FALSE, error |-> fnError]
              /\ delays' = delays
         ELSE /\ rpc' = "sleeping"
              /\ \E jitter \in JitterSamples :
                   delays' = Append(delays, CalculateDelay(currentAttempt) + jitter)
              /\ retryResult' = retryResult
  /\ UNCHANGED <<fn, fnError, fnFailures, maxRetries, currentAttempt, itemResult,
                 config>>
  /\ UNCHANGED <<rlVars, batchVars, itemVars, salvageVars, cascadeVars, pureVars>>

\* await this.sleep(delay); return this.withRetry(fn, context, currentAttempt + 1)
SleepDone ==
  /\ rpc = "sleeping"
  /\ rpc' = "calling"
  /\ currentAttempt' = currentAttempt + 1
  /\ UNCHANGED <<fn, fnError, fnFailures, maxRetries, invocations, delays,
                 retryResult, itemResult, config>>
  /\ UNCHANGED <<rlVars, batchVars, itemVars, salvageVars, cascadeVars, pureVars>>

\* processSinglePDF after step 1: a failure result marks the item failed and
\* returns false; an error thrown by withRetry reaches the catch block, which
\* does the same.
ProcessExtraction ==
  /\ fn = "extractProductInfo"
  /\ rpc \in {"returned", "thrown"}
  /\ itemResult = "none"
  /\ itemResult' = IF rpc = "returned" /\ retryResult.success
                   THEN "extracted" ELSE "failed"
  /\ UNCHANGED <<rpc, fn, fnError, fnFailures, maxRetries, currentAttempt,
                 invocations, delays, retryResult, config>>
  /\ UNCHANGED <<rlVars, batchVars, itemVars, salvageVars, cascadeVars, pureVars>>

\* The caller is done with the result; the next call may begin.
NextCall ==
  /\ rpc \in {"returned", "thrown"}
  /\ fn = "extractProductInfo" => itemResult # "none"
  /\ rpc' = "idle"
  /\ fn' = "none"
  /\ fnError' = {}
  /\ fnFailures' = 0
  /\ maxRetries' = MAX_RETRIES
  /\ config' = DefaultRetryConfig
  /\ currentAttempt' = 0
  /\ invocations' = 0
  /\ delays' = <<>>
  /\ retryResult' = [kind |-> "none"]
  /\ itemResult' = "none"
  /\ UNCHANGED <<rlVars, batchVars, itemVars, salvageVars, cascadeVars, pureVars>>

NextRetry ==
  \/ CallWithRetry
  \/ InvokeFn
  \/ SleepDone
  \/ ProcessExtraction
  \/ NextCall

----------------------------------------------------------------------------
(* BatchProcessor.processAll, retryFailed and ShutdownHandler *)

NumPdfs == 3          \* PDFs the scan can find
MaxConcurrency == 2   \* options.concurrency ranges over 1..MaxConcurrency

Pdfs == 1..NumPdfs

\* scanResult.metadata: the items in scan order.
ScanMetadata(n) == [k \in 1..n |-> k]

Range(seq) == {seq[k] : k \in DOMAIN seq}

\* Mutant: any row of the product counts as processed, failed rows included.
IsProductProcessedAnyRow(db, pdf) == db[pdf] # "none"

\* ProductRepository.isProductProcessed
IsProductProcessed(db, pdf) == db[pdf] = "completed"

\* skipExisting ? metadata.filter(pdf => !isProductProcessed(pdf)) : metadata
FilterPdfs(scan, skipExisting, db) ==
  IF skipExisting
  THEN SelectSeq(scan, LAMBDA pdf : ~IsProductProcessed(db, pdf))
  ELSE scan

\* if (limit && limit > 0 && pdfsToProcess.length > limit) slice(0, limit);
\* an undefined limit is modelled as 0.
ApplyLimit(list, limit) ==
  IF limit # 0 /\ limit > 0 /\ Len(list) > limit
  THEN SubSeq(list, 1, limit)
  ELSE list

\* Mutant: the limit is applied to the scan before the filter.
SelectPdfsLimitFirst(scan, skipExisting, limit, db) ==
  FilterPdfs(ApplyLimit(scan, limit), skipExisting, db)

\* The list processAll works through: filter, then limit.
SelectPdfs(scan, skipExisting, limit, db) ==
  ApplyLimit(FilterPdfs(scan, skipExisting, db), limit)

\* pdfsToProcess.slice(i, i + concurrency)
Batch(list, idx, concurrency) ==
  {list[k] : k \in {k \in DOMAIN list : idx < k /\ k <= idx + concurrency}}

Settled == {"true", "false", "rejected"}

\* Mutant: the window is awaited with Promise.race.
WindowSettledOnFirst(batch) == \E pdf \in batch : task[pdf] \in Settled

\* Mutant: the window is awaited with Promise.all and a rejection is never
\* observed by the loop.
WindowSettledFulfilledOnly(batch) == \A pdf \in batch : task[pdf] \in {"true", "false"}

\* await Promise.allSettled(batchPromises)
WindowSettled(batch) == \A pdf \in batch : task[pdf] \in Settled

\* Mutant: every fulfilled promise counts as a success.
IsSuccessAnyFulfilled(result) == result \in {"true", "false"}

\* result.status === 'fulfilled' && result.value
IsSuccess(result) == result = "true"

\* A success rate is a floating-point number; it is kept as an exact
\* fraction num/den, or NaN for 0/0.
Literal(n) == [nan |-> FALSE, num |-> n, den |-> 1]

\* Mutant: the rate is taken over the failures.
SuccessRateOfFailures(sc, fc) ==
  IF sc + fc = 0
  THEN [nan |-> TRUE, num |-> 0, den |-> 1]
  ELSE [nan |-> FALSE, num |-> fc * 100, den |-> sc + fc]

\* (successCount / (successCount + failureCount)) * 100
SuccessRate(sc, fc) ==
  IF sc + fc = 0
  THEN [nan |-> TRUE, num |-> 0, den |-> 1]
  ELSE [nan |-> FALSE, num |-> sc * 100, den |-> sc + fc]

ProcessingResult(sc, fc, skipped, rate) ==
  [totalProcessed |-> sc + fc, successCount |-> sc, failureCount |-> fc,
   skippedCount |-> skipped, successRate |-> rate]

\* No summary has been returned by the run in progress.
NoSummary ==
  [totalProcessed |-> -1, successCount |-> 0, failureCount |-> 0,
   skippedCount |-> 0, successRate |-> Literal(0)]

NoOptions == [scanned |-> 0, skipExisting |-> TRUE, limit |-> 0, concurrency |-> 1]

NoTasks == [pdf \in Pdfs |-> "idle"]
NoAttempts == [pdf \in Pdfs |-> 0]

\* A CLI command runs in a process of its own, started when no other is
\* running.
CanStartRun == bpc = "idle"

\* The head of the for loop, reached with index idx, the counters sc, fc and
\* the promises tk started so far: either the next window's processSinglePDF
\* calls are started, or the loop ends (index past the list, or the shutdown
\* flag set) and processAll returns its summary.
LoopHead(list, idx, sc, fc, skipped, concurrency, tk, att) ==
  /\ i' = idx
  /\ successCount' = sc
  /\ failureCount' = fc
  /\ IF idx < Len(list) /\ ~isShuttingDown'
     THEN /\ bpc' = "awaiting"
          /\ task' = [pdf \in Pdfs |->
                        IF pdf \in Batch(list, idx, concurrency)
                        THEN "running" ELSE tk[pdf]]
          /\ attempts' = [pdf \in Pdfs |->
                            IF pdf \in Batch(list, idx, concurrency)
                            THEN att[pdf] + 1 ELSE att[pdf]]
          /\ summary' = NoSummary
     ELSE /\ bpc' = "done"
          /\ summary' = ProcessingResult(sc, fc, skipped, SuccessRate(sc, fc))
          /\ task' = tk
          /\ attempts' = att

\* processAll(options), from the resolution of scanPDFDirectory() to the
\* first await of the loop (or to an early return). The products table is
\* what earlier runs left.
ProcessAll ==
  /\ CanStartRun
  /\ \E n \in 0..NumPdfs, skipExisting \in BOOLEAN, limit \in 0..NumPdfs,
        concurrency \in 1..MaxConcurrency :
       LET scan == ScanMetadata(n)
           list == SelectPdfs(scan, skipExisting, limit, dbStatus)
           skipped == Len(scan) - Len(FilterPdfs(scan, skipExisting, dbStatus))
       IN  /\ completedAtStart' = {pdf \in Pdfs : IsProductProcessed(dbStatus, pdf)}
           /\ options' = [scanned |-> n, skipExisting |-> skipExisting,
                          limit |-> limit, concurrency |-> concurrency]
           /\ isShuttingDown' = FALSE
           /\ pdfsToProcess' = IF n = 0 THEN <<>> ELSE list
           /\ IF n = 0
              THEN /\ bpc' = "done"
                   /\ summary' = ProcessingResult(0, 0, 0, Literal(0))
                   /\ i' = 0 /\ successCount' = 0 /\ failureCount' = 0
                   /\ task' = NoTasks /\ attempts' = NoAttempts
              ELSE IF Len(list) = 0
              THEN /\ bpc' = "done"
                   /\ summary' = ProcessingResult(0, 0, skipped, Literal(100))
                   /\ i' = 0 /\ successCount' = 0 /\ failureCount' = 0
                   /\ task' = NoTasks /\ attempts' = NoAttempts
              ELSE LoopHead(list, 0, 0, 0, skipped, concurrency, NoTasks, NoAttempts)
  /\ entry' = "processAll"
  /\ metadata' = <<>>
  /\ pos' = 0
  /\ failedAtStart' = {}
  /\ UNCHANGED dbStatus
  /\ UNCHANGED <<rlVars, retryVars, itemVars, salvageVars, cascadeVars, pureVars>>

\* One processSinglePDF promise settles: fulfilled with true (the product is
\* inserted, status completed), fulfilled with false (markProductAsFailed),
\* or rejected (the catch block itself threw: the row is as it was, or as
\* insertProduct or markProductAsFailed left it before the throw).
ItemSettles(pdf) ==
  /\ bpc = "awaiting"
  /\ task[pdf] = "running"
  /\ \E outcome \in Settled, status \in {"completed", "failed", dbStatus[pdf]} :
       /\ outcome = "true" => status = "completed"
       /\ outcome = "false" => status = "failed"
       /\ task' = [task EXCEPT ![pdf] = outcome]
       /\ dbStatus' = [dbStatus EXCEPT ![pdf] = status]
  /\ UNCHANGED <<bpc, completedAtStart, options, pdfsToProcess, i, successCount,
                 failureCount, attempts, isShuttingDown, summary, entry,
                 metadata, pos, failedAtStart>>
  /\ UNCHANGED <<rlVars, retryVars, itemVars, salvageVars, cascadeVars, pureVars>>

\* Promise.allSettled resolves: the results are counted, i += concurrency,
\* and the loop head runs again.
WindowDone ==
  /\ bpc = "awaiting"
  /\ entry = "processAll"
  /\ LET batch == Batch(pdfsToProcess, i, options.concurrency)
     IN  /\ WindowSettled(batch)
         /\ isShuttingDown' = isShuttingDown
         /\ LoopHead(pdfsToProcess,
                     i + options.concurrency,
                     successCount + Cardinality({pdf \in batch : IsSuccess(task[pdf])}),
                     failureCount + Cardinality({pdf \in batch : ~IsSuccess(task[pdf])}),
                     Len(ScanMetadata(options.scanned))
                       - Len(FilterPdfs(ScanMetadata(options.scanned),
                                        options.skipExisting,
                                        [pdf \in Pdfs |->
                                           IF pdf \in completedAtStart
                                           THEN "completed" ELSE "none"])),
                     options.concurrency, task, attempts)
  /\ UNCHANGED <<dbStatus, completedAtStart, options, pdfsToProcess, entry,
                 metadata, pos, failedAtStart>>
  /\ UNCHANGED <<rlVars, retryVars, itemVars, salvageVars, cascadeVars, pureVars>>

\* ProductRepository.getFailedProducts: the rows with status failed, ordered
\* by product code.
RECURSIVE SortedSeq(_)
SortedSeq(set) ==
  IF set = {} THEN <<>>
  ELSE LET least == CHOOSE x \in set : \A y \in set : x <= y
       IN  <<least>> \o SortedSeq(set \ {least})

GetFailedProducts(db) == SortedSeq({pdf \in Pdfs : db[pdf] = "failed"})

\* for (const pdf of metadata) { await this.processSinglePDF(pdf, progress) }:
\* the items started when the loop reaches its k-th element.
RetryOneByOne(list, k) == {list[k]}

\* retryFailed(), from the call to the first await of its loop (or to the
\* early return when nothing has failed).
RetryFailed ==
  /\ CanStartRun
  /\ LET failedProducts == GetFailedProducts(dbStatus)
     IN  /\ metadata' = failedProducts
         /\ IF Len(failedProducts) = 0
            THEN /\ bpc' = "done"
                 /\ summary' = ProcessingResult(0, 0, 0, Literal(0))
                 /\ pos' = 0
                 /\ task' = NoTasks
                 /\ attempts' = NoAttempts
            ELSE /\ bpc' = "awaiting"
                 /\ summary' = NoSummary
                 /\ pos' = 1
                 /\ task' = [pdf \in Pdfs |->
                               IF pdf \in RetryOneByOne(failedProducts, 1)
                               THEN "running" ELSE "idle"]
                 /\ attempts' = [pdf \in Pdfs |->
                                   IF pdf \in RetryOneByOne(failedProducts, 1)
                                   THEN 1 ELSE 0]
  /\ entry' = "retryFailed"
  /\ isShuttingDown' = FALSE
  /\ successCount' = 0
  /\ failureCount' = 0
  /\ i' = 0
  /\ pdfsToProcess' = <<>>
  /\ completedAtStart' = {}
  /\ failedAtStart' = {pdf \in Pdfs : dbStatus[pdf] = "failed"}
  /\ options' = NoOptions
  /\ UNCHANGED dbStatus
  /\ UNCHANGED <<rlVars, retryVars, itemVars, salvageVars, cascadeVars, pureVars>>

\* The awaited processSinglePDF of retryFailed's loop has settled: a
\* rejection propagates out of retryFailed; otherwise the result is counted
\* and the loop goes on to the next element or retryFailed returns.
RetryItemDone ==
  /\ bpc = "awaiting"
  /\ entry = "retryFailed"
  /\ \A pdf \in Pdfs : task[pdf] # "running"
  /\ LET pdf == metadata[pos]
         sc == successCount + (IF IsSuccess(task[pdf]) THEN 1 ELSE 0)
         fc == failureCount + (IF IsSuccess(task[pdf]) THEN 0 ELSE 1)
     IN  IF task[pdf] = "rejected"
         THEN /\ bpc' = "threw"
              /\ UNCHANGED <<successCount, failureCount, pos, task, attempts, summary>>
         ELSE /\ successCount' = sc
              /\ failureCount' = fc
              /\ IF pos < Len(metadata)
                 THEN /\ pos' = pos + 1
                      /\ bpc' = "awaiting"
                      /\ task' = [p \in Pdfs |->
                                    IF p \in RetryOneByOne(metadata, pos + 1)
                                    THEN "running" ELSE task[p]]
                      /\ attempts' = [p \in Pdfs |->
                                        IF p \in RetryOneByOne(metadata, pos + 1)
                                        THEN attempts[p] + 1 ELSE attempts[p]]
                      /\ summary' = summary
                 ELSE /\ pos' = pos
                      /\ bpc' = "done"
                      /\ summary' = ProcessingResult(sc, fc, 0, SuccessRate(sc, fc))
                      /\ UNCHANGED <<task, attempts>>
  /\ UNCHANGED <<dbStatus, completedAtStart, options, pdfsToProcess, i,
                 isShuttingDown, entry, metadata, failedAtStart>>
  /\ UNCHANGED <<rlVars, retryVars, itemVars, salvageVars, cascadeVars, pureVars>>

\* No caller registers a shutdown callback (onShutdown is never called).
ShutdownCallbacks == <<>>

\* ShutdownHandler.shutdown(signal) on SIGINT/SIGTERM: the flag is set, the
\* (empty) callback list is run, and process.exit(0) ends the process in the
\* same turn of the event loop: every promise still pending is abandoned.
Shutdown ==
  /\ ~isShuttingDown
  /\ bpc \in {"idle", "awaiting"}
  /\ isShuttingDown' = TRUE
  /\ Len(ShutdownCallbacks) = 0
  /\ bpc' = "exited"
  /\ task' = [pdf \in Pdfs |-> IF task[pdf] = "running" THEN "killed" ELSE task[pdf]]
  /\ UNCHANGED <<dbStatus, completedAtStart, options, pdfsToProcess, i,
                 successCount, failureCount, attempts, summary, entry,
                 metadata, pos, failedAtStart>>
  /\ UNCHANGED <<rlVars, retryVars, itemVars, salvageVars, cascadeVars, pureVars>>

\* main(): the command has returned (process.exit(0)), has thrown
\* (process.exit(1)) or was ended by the shutdown handler. Only the database
\* outlives the process.
ProcessEnds ==
  /\ bpc \in {"done", "threw", "exited"}
  /\ bpc' = "idle"
  /\ completedAtStart' = {}
  /\ options' = NoOptions
  /\ pdfsToProcess' = <<>>
  /\ i' = 0
  /\ successCount' = 0
  /\ failureCount' = 0
  /\ task' = NoTasks
  /\ attempts' = NoAttempts
  /\ isShuttingDown' = FALSE
  /\ summary' = NoSummary
  /\ entry' = "none"
  /\ metadata' = <<>>
  /\ pos' = 0
  /\ failedAtStart' = {}
  /\ UNCHANGED dbStatus
  /\ UNCHANGED <<rlVars, retryVars, itemVars, salvageVars, cascadeVars, pureVars>>

InitBatch ==
  /\ bpc = "idle"
  /\ dbStatus = [pdf \in Pdfs |-> "none"]
  /\ completedAtStart = {}
  /\ options = NoOptions
  /\ pdfsToProcess = <<>>
  /\ i = 0
  /\ successCount = 0
  /\ failureCount = 0
  /\ task = NoTasks
  /\ attempts = NoAttempts
  /\ isShuttingDown = FALSE
  /\ summary = NoSummary
  /\ entry = "none"
  /\ metadata = <<>>
  /\ pos = 0
  /\ failedAtStart = {}

NextBatch ==
  \/ ProcessAll
  \/ RetryFailed
  \/ \E pdf \in Pdfs : ItemSettles(pdf)
  \/ WindowDone
  \/ RetryItemDone
  \/ Shutdown
  \/ ProcessEnds

----------------------------------------------------------------------------
(* One item: processSinglePDF and the ProductRepository rows it writes *)

MaxMedium == 3   \* medium-severity findings per list range over 0..MaxMedium

\* validationWarnings and comparisonResult.discrepancies are kept as the
\* number of entries of each severity; the lists tried have no low-severity
\* entry.
SeverityCounts ==
  [high : 0..1, medium : 0..MaxMedium, low : {0}]

NoFindings == [high |-> 0, medium |-> 0, low |-> 0]

Total(c) == c.high + c.medium + c.low

NoExtraction ==
  [success |-> FALSE, data |-> FALSE, supplementFacts |-> FALSE, error |-> "",
   validationWarnings |-> NoFindings]

\* ComparisonEngine.compareSupplementFacts: recommendsReview and
\* hasDiscrepancies as computed from the discrepancies and the score.
ComparisonResult(discrepancies, similarityBelow85) ==
  [present |-> TRUE,
   discrepancies |-> discrepancies,
   hasDiscrepancies |-> Total(discrepancies) > 0,
   recommendsReview |-> \/ discrepancies.high > 0
                        \/ discrepancies.medium > 2
                        \/ similarityBelow85]

\* comparisonResult = null: verification disabled, no supplement facts, Grok
\* failed or threw.
NoComparison ==
  [present |-> FALSE, discrepancies |-> NoFindings, hasDiscrepancies |-> FALSE,
   recommendsReview |-> FALSE]

ComparisonResults ==
  {NoComparison} \cup
  {ComparisonResult(d, b) : d \in SeverityCounts, b \in BOOLEAN}

\* grokResult = null: verification is disabled or the data has no supplement
\* facts.
NoGrokResult == [success |-> FALSE, kind |-> "none"]

\* How verifySupplementFacts can fail; each yields {success: false, error}.
\* convertPDFToImages fails; the API call throws; the response is empty;
\* parseSupplementFacts finds no JSON; the JSON has none of servings,
\* servingsPerContainer, nutrients; anything else throws inside the try.
VerificationFailures ==
  {"conversionFailed", "apiError", "emptyResponse", "unparseable",
   "missingFields", "threw"}

\* A parsed value that has one of the three fields passes parseSupplementFacts
\* whatever its other fields are: "malformed" is such a value without a
\* usable nutrients array, on which compareSupplementFacts throws.
VerificationSuccesses == {"verified", "malformed"}

GrokVerificationResult(kind) ==
  [success |-> kind \in VerificationSuccesses, kind |-> kind]

\* Steps 2 and 3 of processSinglePDF: the comparisonResult left by the inner
\* try/catch, given what the comparison engine would return.
ComparisonAfter(verification, engineResult) ==
  IF verification.success /\ verification.kind = "verified"
  THEN engineResult
  ELSE NoComparison

\* grokResult?.success ? {...} : undefined, and insertVerificationData
VerificationStored(verification) ==
  IF verification.success THEN "stored" ELSE "absent"

\* needsReview of processSinglePDF, step 7
NeedsReview(comparisonResult, validationWarnings) ==
  \/ comparisonResult.recommendsReview
  \/ validationWarnings.high > 0
  \/ validationWarnings.medium > 2

\* The item's row of products; verification tells whether the product has a
\* row in verification_extractions.
NoProduct ==
  [extraction_status |-> "none", error_message |-> "", verification |-> "absent"]

NoReviewEntry ==
  [review_status |-> "absent", total_discrepancies |-> 0,
   high_severity_count |-> 0, medium_severity_count |-> 0, review_priority |-> 0]

\* insertProductData: INSERT ... ON CONFLICT(product_code) DO UPDATE sets
\* extraction_status = 'completed' and leaves error_message as it was.
InsertProductData(row) == [row EXCEPT !.extraction_status = "completed"]

\* deleteRelatedData: DELETE FROM human_review_queue WHERE product_id = ?
DeleteRelatedData(queueRow) == NoReviewEntry

\* ProductRepository.markProductAsFailed
MarkProductAsFailed(row, errorMessage) ==
  [row EXCEPT !.extraction_status = "failed", !.error_message = errorMessage]

\* Mutant: every high-severity finding weighs 2, whichever list it is in.
AddToReviewQueueEqualWeights(queueRow, discrepancies, validationWarnings) ==
  [review_status |-> IF queueRow.review_status = "absent"
                     THEN "pending" ELSE queueRow.review_status,
   total_discrepancies |-> Total(discrepancies) + Total(validationWarnings),
   high_severity_count |-> discrepancies.high + validationWarnings.high,
   medium_severity_count |-> discrepancies.medium + validationWarnings.medium,
   review_priority |-> (validationWarnings.high + discrepancies.high) * 2
                         + discrepancies.medium + validationWarnings.medium]

\* ProductRepository.addToReviewQueue: INSERT ... ON CONFLICT(product_id) DO
\* UPDATE of the counts and the priority; review_status is the column
\* default 'pending' on insert and is left alone on update.
AddToReviewQueue(queueRow, discrepancies, validationWarnings) ==
  LET totalHighCount == discrepancies.high + validationWarnings.high
      totalMediumCount == discrepancies.medium + validationWarnings.medium
      totalDiscrepancies == Total(discrepancies) + Total(validationWarnings)
      priority == (validationWarnings.high * 3) + (discrepancies.high * 2)
                    + totalMediumCount
  IN  [review_status |-> IF queueRow.review_status = "absent"
                         THEN "pending" ELSE queueRow.review_status,
       total_discrepancies |-> totalDiscrepancies,
       high_severity_count |-> totalHighCount,
       medium_severity_count |-> totalMediumCount,
       review_priority |-> priority]

\* ProductRepository.markReviewResolved: UPDATE ... WHERE product_id = ?
MarkReviewResolved(queueRow) ==
  IF queueRow.review_status = "absent"
  THEN queueRow
  ELSE [queueRow EXCEPT !.review_status = "resolved"]

\* The repository calls of the try block and of the catch block; any one of
\* them may throw (the database is locked, full or closed).
FailureBranchCalls == {"markProductAsFailed", "logProcessing"}
PersistBranchCalls ==
  {"insertProduct", "insertValidationWarnings", "insertDiscrepancies",
   "addToReviewQueue", "logProcessing"}
CatchFaults == {"none", "markProductAsFailed", "logProcessing"}

\* No call throws, or one call of the try block throws and then possibly one
\* of the catch block.
Faults(calls) == {<<"none", "none">>} \cup (calls \X CatchFaults)

DatabaseError == "database is locked"

Settle(row, queueRow, result) == [product |-> row, reviewEntry |-> queueRow, outcome |-> result]

\* catch (error) { markProductAsFailed(metadata, errorMsg); logProcessing(..);
\* return false }: a throw inside it rejects the promise.
CatchBlock(row, queueRow, errorMsg, catchFault) ==
  IF catchFault = "markProductAsFailed"
  THEN Settle(row, queueRow, "rejected")
  ELSE IF catchFault = "logProcessing"
  THEN Settle(MarkProductAsFailed(row, errorMsg), queueRow, "rejected")
  ELSE Settle(MarkProductAsFailed(row, errorMsg), queueRow, "false")

\* if (!extractionResult.success || !extractionResult.data) { ... return false }
FailureBranch(row, queueRow, result, tryFault, catchFault) ==
  IF tryFault = "markProductAsFailed"
  THEN CatchBlock(row, queueRow, DatabaseError, catchFault)
  ELSE LET marked == MarkProductAsFailed(row,
                       IF result.error # "" THEN result.error ELSE "Extraction failed")
       IN  IF tryFault = "logProcessing"
           THEN CatchBlock(marked, queueRow, DatabaseError, catchFault)
           ELSE Settle(marked, queueRow, "false")

\* Steps 4 to 7 of processSinglePDF and its final logProcessing. insertProduct
\* is one transaction: when it throws, nothing of it is kept.
PersistBranch(row, queueRow, result, comparisonResult, verification, tryFault, catchFault) ==
  LET validationWarnings == result.validationWarnings
      inserted == [InsertProductData(row) EXCEPT
                     !.verification = VerificationStored(verification)]
      cleared == DeleteRelatedData(queueRow)
      needsReview == NeedsReview(comparisonResult, validationWarnings)
      queued == IF needsReview
                THEN AddToReviewQueue(cleared, comparisonResult.discrepancies,
                                      validationWarnings)
                ELSE cleared
  IN  IF tryFault = "insertProduct"
      THEN CatchBlock(row, queueRow, DatabaseError, catchFault)
      ELSE IF tryFault = "insertValidationWarnings" /\ Total(validationWarnings) > 0
      THEN CatchBlock(inserted, cleared, DatabaseError, catchFault)
      ELSE IF /\ tryFault = "insertDiscrepancies"
              /\ comparisonResult.present /\ comparisonResult.hasDiscrepancies
      THEN CatchBlock(inserted, cleared, DatabaseError, catchFault)
      ELSE IF tryFault = "addToReviewQueue" /\ needsReview
      THEN CatchBlock(inserted, cleared, DatabaseError, catchFault)
      ELSE IF tryFault = "logProcessing"
      THEN CatchBlock(inserted, queued, DatabaseError, catchFault)
      ELSE Settle(inserted, queued, "true")

\* processSinglePDF(metadata, progress) is called on the item, by a window of
\* processAll or by retryFailed's loop, and awaits withRetry.
StartProcessing ==
  /\ ipc = "idle"
  /\ ipc' = "extracting"
  /\ itemOutcome' = "none"
  /\ grokResult' = NoGrokResult
  /\ UNCHANGED <<extractionResult, product, reviewEntry>>
  /\ UNCHANGED <<rlVars, retryVars, batchVars, salvageVars, cascadeVars, pureVars>>

\* withRetry resolves with the extraction result. A failed extraction (no
\* success, or no data) takes the failure branch; a successful one awaits the
\* verification when ENABLE_GROK_VERIFICATION is set and the data has
\* supplement facts, and goes straight to the database otherwise.
ExtractionReturns ==
  /\ ipc = "extracting"
  /\ \/ \E error \in {"", "Failed to parse JSON"}, success \in BOOLEAN,
           faults \in Faults(FailureBranchCalls) :
          LET result == [NoExtraction EXCEPT !.success = success, !.error = error]
              settled == FailureBranch(product, reviewEntry, result,
                                       faults[1], faults[2])
          IN  /\ product' = settled.product
              /\ reviewEntry' = settled.reviewEntry
              /\ itemOutcome' = settled.outcome
              /\ ipc' = "settled"
              /\ extractionResult' = NoExtraction
     \/ \E validationWarnings \in SeverityCounts :
          /\ ipc' = "verifying"
          /\ extractionResult' =
               [success |-> TRUE, data |-> TRUE, supplementFacts |-> TRUE,
                error |-> "", validationWarnings |-> validationWarnings]
          /\ UNCHANGED <<product, reviewEntry, itemOutcome>>
     \/ \E validationWarnings \in SeverityCounts, supplementFacts \in BOOLEAN,
           faults \in Faults(PersistBranchCalls) :
          LET result == [success |-> TRUE, data |-> TRUE,
                         supplementFacts |-> supplementFacts, error |-> "",
                         validationWarnings |-> validationWarnings]
              settled == PersistBranch(product, reviewEntry, result,
                                       NoComparison, NoGrokResult,
                                       faults[1], faults[2])
          IN  /\ product' = settled.product
              /\ reviewEntry' = settled.reviewEntry
              /\ itemOutcome' = settled.outcome
              /\ ipc' = "settled"
              /\ extractionResult' = NoExtraction
  /\ UNCHANGED grokResult
  /\ UNCHANGED <<rlVars, retryVars, batchVars, salvageVars, cascadeVars, pureVars>>

\* grokExtractor.verifySupplementFacts settles (its failure is caught and
\* leaves comparisonResult null); the rest of processSinglePDF is synchronous.
VerificationReturns ==
  /\ ipc = "verifying"
  /\ \E kind \in VerificationFailures \cup VerificationSuccesses,
        faults \in Faults(PersistBranchCalls) :
     \E engineResult \in IF kind = "verified"
                          THEN ComparisonResults \ {NoComparison}
                          ELSE {NoComparison} :
       LET verification == GrokVerificationResult(kind)
           comparisonResult == ComparisonAfter(verification, engineResult)
           settled == PersistBranch(product, reviewEntry, extractionResult,
                                    comparisonResult, verification,
                                    faults[1], faults[2])
       IN  /\ grokResult' = verification
           /\ product' = settled.product
           /\ reviewEntry' = settled.reviewEntry
           /\ itemOutcome' = settled.outcome
  /\ ipc' = "settled"
  /\ extractionResult' = NoExtraction
  /\ UNCHANGED <<rlVars, retryVars, batchVars, salvageVars, cascadeVars, pureVars>>

\* The run that processed the item is over; a later run may process it again.
RunOver ==
  /\ ipc = "settled"
  /\ ipc' = "idle"
  /\ itemOutcome' = "none"
  /\ grokResult' = NoGrokResult
  /\ UNCHANGED <<extractionResult, product, reviewEntry>>
  /\ UNCHANGED <<rlVars, retryVars, batchVars, salvageVars, cascadeVars, pureVars>>

\* The resolve command of the CLI: resolveReview -> markReviewResolved.
ResolveReview ==
  /\ reviewEntry' = MarkReviewResolved(reviewEntry)
  /\ reviewEntry' # reviewEntry
  /\ UNCHANGED <<ipc, extractionResult, product, itemOutcome, grokResult>>
  /\ UNCHANGED <<rlVars, retryVars, batchVars, salvageVars, cascadeVars, pureVars>>

InitItem ==
  /\ ipc = "idle"
  /\ extractionResult = NoExtraction
  /\ product = NoProduct
  /\ grokResult = NoGrokResult
  /\ reviewEntry = NoReviewEntry
  /\ itemOutcome = "none"

NextItem ==
  \/ StartProcessing
  \/ ExtractionReturns
  \/ VerificationReturns
  \/ RunOver
  \/ ResolveReview

----------------------------------------------------------------------------
(***************************************************************************)
(* Strict validation and salvage parse (json-validator.ts, normalizer,     *)
(* AIExtractor.extractProductInfo / extractProductInfoHybrid).             *)
(*                                                                         *)
(* A JSON value is a record with its typeof in t.  Scalars carry their     *)
(* text in v.  Of a product's fields the model keeps productName,          *)
(* productDescription, directions, caution (productSlogan, subbrand and    *)
(* references are treated by the code as caution is), supplementFacts and  *)
(* ingredients (dietaryAttributes is treated as ingredients is); of a      *)
(* nutrient's fields it keeps name, amount and dailyValuePercentAdult.     *)
(***************************************************************************)
MaxNutrients == 2

Undefined == [t |-> "undefined", v |-> ""]
Null == [t |-> "null", v |-> ""]
NumberValue == [t |-> "number", v |-> "30"]
Str(s) == [t |-> "string", v |-> s]

IsString(x) == x.t = "string"

\* z.string().min(1)
IsRequiredString(x) == IsString(x) /\ x.v # ""

\* z.string().nullable().optional()
IsOptionalString(x) == x.t \in {"string", "null", "undefined"}

\* /^<?[\d.]+\s*[a-zA-Z]+/ on the amounts the model draws from.
MatchesAmountPattern(s) == s \in {"100 mg", "100mg", "<1 g"}

\* /^<?[\d.]+$/ on the percentages the model draws from.
MatchesPercentPattern(s) == s \in {"111", "<1"}

\* nutrientSchema.amount: absent, null or a string that matches the pattern.
IsOptionalAmount(x) ==
  \/ x.t \in {"null", "undefined"}
  \/ IsString(x) /\ MatchesAmountPattern(x.v)

\* nutrientSchema.dailyValuePercentAdult, likewise.
IsOptionalPercent(x) ==
  \/ x.t \in {"null", "undefined"}
  \/ IsString(x) /\ MatchesPercentPattern(x.v)

Nutrient(name, amount, percent) ==
  [t |-> "object", name |-> name, amount |-> amount,
   dailyValuePercentAdult |-> percent]

\* An element of a nutrients array that is not an object.
NotANutrient ==
  [t |-> "number", name |-> Undefined, amount |-> Undefined,
   dailyValuePercentAdult |-> Undefined]

NoArray == [t |-> "undefined", v |-> <<>>]
NotAnArray == [t |-> "string", v |-> <<>>]
Array(s) == [t |-> "array", v |-> s]

SupplementFacts(servings, servingsPerContainer, calories, protein, nutrients) ==
  [t |-> "object", servings |-> servings,
   servingsPerContainer |-> servingsPerContainer, calories |-> calories,
   protein |-> protein, nutrients |-> nutrients]

NoSupplementFacts ==
  [t |-> "undefined", servings |-> Undefined,
   servingsPerContainer |-> Undefined, calories |-> Undefined,
   protein |-> Undefined, nutrients |-> NoArray]

\* A supplementFacts member that is not an object (a JSON string).
NotSupplementFacts == [NoSupplementFacts EXCEPT !.t = "string"]

ProductValue(productName, productDescription, directions, caution, supplementFacts, ingredients) ==
  [t |-> "object", productName |-> productName,
   productDescription |-> productDescription, directions |-> directions,
   caution |-> caution, supplementFacts |-> supplementFacts,
   ingredients |-> ingredients]

NoValue ==
  [t |-> "undefined", productName |-> Undefined,
   productDescription |-> Undefined, directions |-> Undefined,
   caution |-> Undefined, supplementFacts |-> NoSupplementFacts,
   ingredients |-> NoArray]

\* ---- the values the model draws from ----
NutrientSamples ==
  { Nutrient(Str("Vitamin C"), Str("100 mg"), Str("111")),
    Nutrient(Str("Zinc"), Str("100mg"), Str("111%")),
    Nutrient(Str("Iron"), NumberValue, Null),
    Nutrient(Str("Sodium"), Str("0"), Null),
    Nutrient(Str("Calcium"), Str("100"), Null),
    Nutrient(Undefined, Str("100 mg"), Null),
    NotANutrient }

SeqsUpTo(S, n) == UNION { [1..k -> S] : k \in 0..n }

NutrientsSamples ==
  {NoArray, NotAnArray} \cup { Array(s) : s \in SeqsUpTo(NutrientSamples, MaxNutrients) }

SupplementFactsSamples ==
  {NoSupplementFacts, NotSupplementFacts} \cup
  { SupplementFacts(servings, servingsPerContainer, calories, Undefined, nutrients) :
      servings \in {Str("1 capsule"), Str(" 2  tablets"), NumberValue},
      servingsPerContainer \in {Str("30"), Str(""), Undefined},
      calories \in {Undefined, Str("10"), NumberValue},
      nutrients \in NutrientsSamples }

IngredientsSamples ==
  {NoArray, NotAnArray, Array(<<"Vitamin C">>)}

\* ---- validation (json-validator.ts) ----
\* isLikelyProductExtraction: the shape validator of extractAllStrategies.
IsLikelyProductExtraction(data) ==
  /\ data.t = "object"
  /\ IsRequiredString(data.productName)
  /\ IsRequiredString(data.productDescription)
  /\ \/ data.supplementFacts.t # "undefined"
     \/ data.ingredients.t # "undefined"
     \/ data.directions.t # "undefined"

\* isLikelySupplementFacts: the shape validator of extractSupplementFactsJSON.
IsLikelySupplementFacts(data) ==
  /\ data.t = "object"
  /\ IsRequiredString(data.servings)
  /\ IsString(data.servingsPerContainer)
  /\ data.nutrients.t = "array"

Issue(path, index) == [path |-> path, index |-> index]

IssueUnless(valid, path, index) == IF valid THEN {} ELSE {Issue(path, index)}

\* The issues nutrientSchema raises on element k of a nutrients array.
NutrientIssues(n, k) ==
  IF n.t # "object" THEN {Issue("supplementFacts.nutrients", k - 1)}
  ELSE
    IssueUnless(IsRequiredString(n.name), "supplementFacts.nutrients.name", k - 1)
    \cup IssueUnless(IsOptionalAmount(n.amount), "supplementFacts.nutrients.amount", k - 1)
    \cup IssueUnless(IsOptionalPercent(n.dailyValuePercentAdult), "supplementFacts.nutrients.dailyValuePercentAdult", k - 1)

\* The issues supplementFactsSchema raises on an object.
SupplementFactsIssues(sf) ==
  IssueUnless(IsRequiredString(sf.servings), "supplementFacts.servings", 0)
  \cup IssueUnless(IsRequiredString(sf.servingsPerContainer), "supplementFacts.servingsPerContainer", 0)
  \cup IssueUnless(IsOptionalString(sf.calories), "supplementFacts.calories", 0)
  \cup IssueUnless(IsOptionalString(sf.protein), "supplementFacts.protein", 0)
  \cup (CASE sf.nutrients.t = "undefined" -> {}
          [] sf.nutrients.t = "array" ->
               UNION { NutrientIssues(sf.nutrients.v[k], k) : k \in DOMAIN sf.nutrients.v }
          [] OTHER -> {Issue("supplementFacts.nutrients", 0)})

\* The issues productExtractionSchema raises on an object.
ProductIssues(data) ==
  IssueUnless(IsRequiredString(data.productName), "productName", 0)
  \cup IssueUnless(IsRequiredString(data.productDescription), "productDescription", 0)
  \cup IssueUnless(IsRequiredString(data.directions), "directions", 0)
  \cup IssueUnless(IsOptionalString(data.caution), "caution", 0)
  \cup (CASE data.supplementFacts.t = "undefined" -> {}
          [] data.supplementFacts.t = "object" -> SupplementFactsIssues(data.supplementFacts)
          [] OTHER -> {Issue("supplementFacts", 0)})
  \cup IssueUnless(data.ingredients.t \in {"undefined", "array"}, "ingredients", 0)

\* What supplementFactsSchema.parse returns for an object without issues:
\* nutrients defaults to [].
ParsedSupplementFacts(sf) ==
  [sf EXCEPT !.nutrients = IF @.t = "undefined" THEN Array(<<>>) ELSE @]

\* What productExtractionSchema.parse returns for a value without issues.
ParsedProduct(data) ==
  [data EXCEPT
     !.ingredients = IF @.t = "undefined" THEN Array(<<>>) ELSE @,
     !.supplementFacts = IF @.t = "object" THEN ParsedSupplementFacts(@) ELSE @]

\* typeof x === 'string' ? x : fallback
StringOr(x, fallback) == IF IsString(x) THEN x ELSE fallback

\* The filter of the nutrients salvage: objects with a string name.
HasStringName(n) == n.t = "object" /\ IsString(n.name)

SalvagedNutrient(n) ==
  Nutrient(n.name, StringOr(n.amount, Null),
           StringOr(n.dailyValuePercentAdult, Null))

\* sfPartial.nutrients.filter(...).map(...)
SalvagedNutrients(nutrients) ==
  LET named == SelectSeq(nutrients, HasStringName)
  IN  [k \in DOMAIN named |-> SalvagedNutrient(named[k])]

\* safeParseProductExtraction, the supplementFacts part (lines 165-194).
SalvagedSupplementFacts(sfPartial) ==
  IF SupplementFactsIssues(sfPartial) = {} THEN ParsedSupplementFacts(sfPartial)
  ELSE IF sfPartial.nutrients.t = "array"
  THEN SupplementFacts(StringOr(sfPartial.servings, Str("1")),
                       StringOr(sfPartial.servingsPerContainer, Str("1")),
                       StringOr(sfPartial.calories, Null),
                       StringOr(sfPartial.protein, Null),
                       Array(SalvagedNutrients(sfPartial.nutrients.v)))
  ELSE NoSupplementFacts

\* The null safeParseProductExtraction returns for a value that is no object.
NullValue == [NoValue EXCEPT !.t = "null"]

\* Mutant: a value with issues is given up whole.
SafeParseAllOrNothing(data) ==
  IF ProductIssues(data) = {} THEN ParsedProduct(data) ELSE NullValue

SafeParseProductExtraction(data) ==
  IF ProductIssues(data) = {} THEN ParsedProduct(data)
  ELSE IF data.t = "object"
  THEN ProductValue(StringOr(data.productName, Str("Unknown")),
                    StringOr(data.productDescription, Str("No description available")),
                    StringOr(data.directions, Str("No directions provided")),
                    StringOr(data.caution, Null),
                    IF data.supplementFacts.t = "object"
                      THEN SalvagedSupplementFacts(data.supplementFacts)
                      ELSE NoSupplementFacts,
                    Array(<<>>))
  ELSE NullValue

\* ---- normalisation (normalizer) ----
\* text.trim().replace(/\s+/g, ' ') on the strings the model draws from.
CollapseWhitespace(s) ==
  CASE s = " 2  tablets" -> "2 tablets"
    [] OTHER -> s

\* normalizeWhitespace: null for null, undefined and the empty string.
NormalizeWhitespace(x) ==
  IF ~IsString(x) \/ x.v = "" THEN Null ELSE Str(CollapseWhitespace(x.v))

\* x || fallback
OrElse(x, fallback) == IF IsString(x) /\ x.v # "" THEN x ELSE fallback

NormalizeProductName(name) ==
  OrElse(NormalizeWhitespace(name), Str("Unknown Product"))

\* normalizeDescription's final punctuation on the strings it can be given.
EnsureFinalStop(s) ==
  CASE s = "A test product" -> "A test product."
    [] s = "Take one daily" -> "Take one daily."
    [] s = "No description available" -> "No description available."
    [] s = "No directions provided" -> "No directions provided."
    [] OTHER -> s

NormalizeDescription(description) ==
  Str(EnsureFinalStop(
        OrElse(NormalizeWhitespace(description), Str("No description available")).v))

NormalizeServing(serving) ==
  OrElse(NormalizeWhitespace(serving), Str("Not specified"))

\* normalized.replace(/(\d)([a-zA-Z])/g, '$1 $2')
SpaceBeforeUnit(s) ==
  CASE s = "100mg" -> "100 mg"
    [] OTHER -> s

InvalidAmounts == {"0", "unknown", "N/A", "n/a", "-"}

NormalizeNutrientAmount(amount) ==
  LET normalized == NormalizeWhitespace(amount) IN
  IF ~IsString(normalized) \/ normalized.v \in InvalidAmounts THEN Null
  ELSE Str(SpaceBeforeUnit(normalized.v))

\* normalized.replace(/%/g, '').trim()
WithoutPercentSign(s) ==
  CASE s = "111%" -> "111"
    [] OTHER -> s

InvalidPercents == {"0", "unknown", "N/A", "n/a", "-", "*"}

NormalizeDailyValuePercent(percent) ==
  LET normalized == NormalizeWhitespace(percent)
      cleaned == WithoutPercentSign(normalized.v)
  IN  IF ~IsString(normalized) \/ cleaned \in InvalidPercents
         \/ ~MatchesPercentPattern(cleaned)
      THEN Null ELSE Str(cleaned)

NormalizedNutrient(n) ==
  Nutrient(OrElse(NormalizeWhitespace(n.name), Str("Unknown")),
           NormalizeNutrientAmount(n.amount),
           NormalizeDailyValuePercent(n.dailyValuePercentAdult))

HasAmount(n) == n.amount.t # "null"

\* nutrients.map(...).filter(n => n.amount !== null)
NormalizedNutrients(nutrients) ==
  SelectSeq([k \in DOMAIN nutrients |-> NormalizedNutrient(nutrients[k])], HasAmount)

\* normalizeProductData, standard mode (the extractors pass no options).
NormalizeProductData(data) ==
  ProductValue(NormalizeProductName(data.productName),
               NormalizeDescription(data.productDescription),
               NormalizeDescription(data.directions),
               NormalizeWhitespace(data.caution),
               IF data.supplementFacts.t = "object"
                 THEN SupplementFacts(
                        NormalizeServing(data.supplementFacts.servings),
                        NormalizeServing(data.supplementFacts.servingsPerContainer),
                        NormalizeWhitespace(data.supplementFacts.calories),
                        NormalizeWhitespace(data.supplementFacts.protein),
                        Array(NormalizedNutrients(data.supplementFacts.nutrients.v)))
                 ELSE NoSupplementFacts,
               data.ingredients)

\* ---- warnings (AIExtractor.parseValidationWarnings) ----
DetermineValidationSeverity(fieldPath) ==
  CASE fieldPath = "supplementFacts.nutrients.amount" -> "high"
    [] fieldPath \in {"supplementFacts.nutrients.dailyValuePercentAdult",
                      "supplementFacts.servings",
                      "supplementFacts.servingsPerContainer"} -> "medium"
    [] OTHER -> "low"

\* A part "path: message" names a field path only when the path has a dot.
IsNestedPath(path) ==
  path \notin {"productName", "productDescription", "directions", "caution",
               "supplementFacts", "ingredients"}

ValidationWarning(issue) ==
  IF IsNestedPath(issue.path)
  THEN [fieldPath |-> issue.path, index |-> issue.index, message |-> "invalid",
        severity |-> DetermineValidationSeverity(issue.path)]
  ELSE [fieldPath |-> "unknown", index |-> 0, message |-> issue.path,
        severity |-> "low"]

\* The first line of the error string, "Validation failed:", becomes a
\* warning of its own.
HeaderWarning ==
  [fieldPath |-> "unknown", index |-> 0, message |-> "Validation failed:",
   severity |-> "low"]

ParseValidationWarnings(issues) ==
  {HeaderWarning} \cup { ValidationWarning(issue) : issue \in issues }

\* ---- the extractors, from validateProductExtraction on ----
\* rawResponse is "raw" when the result carries the text the provider
\* returned (in the hybrid path, the JSON of the vision and text responses)
\* and "" when the result has no rawResponse.
NoExtractionResult ==
  [success |-> FALSE, data |-> NoValue, error |-> "none", rawResponse |-> "",
   validationWarnings |-> {}]

ValidateAndSalvage(data) ==
  IF ProductIssues(data) # {}
  THEN LET partialData == SafeParseProductExtraction(data) IN
       IF partialData.t = "object"
       THEN [success |-> TRUE, data |-> NormalizeProductData(partialData),
             error |-> "Partial extraction", rawResponse |-> "raw",
             validationWarnings |-> ParseValidationWarnings(ProductIssues(data))]
       ELSE [success |-> FALSE, data |-> NoValue, error |-> "Validation failed",
             rawResponse |-> "raw", validationWarnings |-> {}]
  ELSE [success |-> TRUE, data |-> NormalizeProductData(ParsedProduct(data)),
        error |-> "", rawResponse |-> "raw", validationWarnings |-> {}]

\* fs.existsSync / fs.mkdirSync / fs.writeFileSync of the debug file: all go
\* through, or one of the two writes throws.
SinkFaults == {"none", "mkdirSync", "writeFileSync"}

\* error.message of what the file system throws.
SinkError(sinkFault) ==
  IF sinkFault = "mkdirSync" THEN "EACCES: permission denied, mkdir"
  ELSE "ENOSPC: no space left on device, write"

\* catch (error) { ... return {success: false, error: errorMsg,
\* processingTimeMs, retryCount} } of both extractors
CaughtError(errorMsg) ==
  [success |-> FALSE, data |-> NoValue, error |-> errorMsg, rawResponse |-> "",
   validationWarnings |-> {}]

\* if (!jsonData) { save the response to the debug file; return {success:
\* false, error, rawResponse, ...} } of extractProductInfo; the block is
\* inside the try of the method.
ParseFailed(sinkFault) ==
  IF sinkFault = "none"
  THEN [success |-> FALSE, data |-> NoValue,
        error |-> "Failed to extract JSON from response (see logs for details)",
        rawResponse |-> "raw", validationWarnings |-> {}]
  ELSE CaughtError(SinkError(sinkFault))

\* if (!supplementFactsJson) return {success: false, error, processingTimeMs,
\* retryCount} of extractProductInfoHybrid
SupplementFactsParseFailed ==
  [success |-> FALSE, data |-> NoValue,
   error |-> "Failed to parse supplement facts JSON", rawResponse |-> "",
   validationWarnings |-> {}]

\* markProductAsFailed(metadata, error, extractionResult.rawResponse) stores
\* raw_ai_response = rawResponse || null; "" stands for NULL.
RawAiResponse(result) == result.rawResponse

\* What extractJSON can hand to validation: objects accepted by the cascade's
\* shape validator.
RecoveredValues ==
  { data \in { ProductValue(productName, Str("A test product"), directions,
                            caution, supplementFacts, ingredients) :
                 productName \in {Str("Test Product"), Str("")},
                 directions \in {Str("Take one daily"), Undefined},
                 caution \in {Undefined, NumberValue},
                 supplementFacts \in SupplementFactsSamples,
                 ingredients \in IngredientsSamples } :
      IsLikelyProductExtraction(data) }

\* What the hybrid path combines: strings from the file name and the text
\* extraction, supplement facts accepted by isLikelySupplementFacts.
CombinedValues ==
  { ProductValue(productName, Str("A test product"), directions, caution,
                 supplementFacts, ingredients) :
      productName \in {Str("Test Product"), Str("")},
      directions \in {Str("Take one daily"), Str("")},
      caution \in {Null, Str("Keep out of reach")},
      supplementFacts \in { sf \in SupplementFactsSamples : IsLikelySupplementFacts(sf) },
      ingredients \in {Array(<<>>), Array(<<"Vitamin C">>)} }

\* extractProductInfo from extractJSON on: the cascade recovers a value, or
\* returns null and the response goes to the debug file.
ExtractProductInfo ==
  /\ caller = "none"
  /\ \/ \E data \in RecoveredValues :
          /\ jsonData' = data
          /\ extraction' = ValidateAndSalvage(data)
          /\ debugFile' = "none"
     \/ \E sinkFault \in SinkFaults :
          /\ jsonData' = NoValue
          /\ extraction' = ParseFailed(sinkFault)
          /\ debugFile' = IF sinkFault = "none" THEN "written" ELSE "failed"
  /\ caller' = "extractProductInfo"
  /\ UNCHANGED <<rlVars, retryVars, batchVars, itemVars, cascadeVars, pureVars>>

\* extractProductInfoHybrid from extractSupplementFactsJSON on: the vision
\* response yields no supplement facts, or the data is combined (a text or
\* full-product response that does not parse is replaced by the text
\* extraction) and validated.
ExtractProductInfoHybrid ==
  /\ caller = "none"
  /\ \/ \E combinedData \in CombinedValues :
          /\ jsonData' = combinedData
          /\ extraction' = ValidateAndSalvage(combinedData)
     \/ /\ jsonData' = NoValue
        /\ extraction' = SupplementFactsParseFailed
  /\ debugFile' = "none"
  /\ caller' = "extractProductInfoHybrid"
  /\ UNCHANGED <<rlVars, retryVars, batchVars, itemVars, cascadeVars, pureVars>>

\* processSinglePDF has taken the ExtractionResult; the next call starts
\* afresh.
ExtractionTaken ==
  /\ caller # "none"
  /\ caller' = "none"
  /\ jsonData' = NoValue
  /\ extraction' = NoExtractionResult
  /\ debugFile' = "none"
  /\ UNCHANGED <<rlVars, retryVars, batchVars, itemVars, cascadeVars, pureVars>>

InitSalvage ==
  /\ caller = "none"
  /\ jsonData = NoValue
  /\ extraction = NoExtractionResult
  /\ debugFile = "none"

NextSalvage ==
  \/ ExtractProductInfo
  \/ ExtractProductInfoHybrid
  \/ ExtractionTaken

----------------------------------------------------------------------------
(***************************************************************************)
(* Recovery cascade (json-extractor: extractAllStrategies and its          *)
(* strategies) and GrokExtractor.parseSupplementFacts.                     *)
(*                                                                         *)
(* A response text is a sequence of tokens.  An object token stands for    *)
(* the text of one complete top-level JSON object, braces included:        *)
(*   objProduct        well-formed, accepted by isLikelyProductExtraction  *)
(*   objFacts          well-formed, with servings, servingsPerContainer    *)
(*                     and nutrients, no productName                       *)
(*   objNewline        objProduct with a raw newline inside a string       *)
(*   objTrailingComma  objProduct with a comma before the closing brace    *)
(*   objPhrase         objProduct with one of the cleanup phrases between  *)
(*                     two members                                         *)
(* "phrase" is one of the phrases extractWithCleanup removes, "letMeKnow"  *)
(* the one it removes together with the rest of the text, "prose" any      *)
(* other words without braces, brackets or fences, "fence" three           *)
(* backticks and "jsonFence" three backticks followed by json.  A parsed   *)
(* value is named by its kind: product, facts or array.                    *)
(***************************************************************************)
MaxTextLen == 3

Tokens ==
  {"prose", "phrase", "letMeKnow", "[", "]", "fence", "jsonFence",
   "objProduct", "objFacts", "objNewline", "objTrailingComma", "objPhrase"}

Texts == UNION { [1..n -> Tokens] : n \in 0..MaxTextLen }

ObjectTokens ==
  {"objProduct", "objFacts", "objNewline", "objTrailingComma", "objPhrase"}

Fences == {"fence", "jsonFence"}

Failure == [success |-> FALSE, data |-> "none"]
Success(data) == [success |-> TRUE, data |-> data]

\* The kind of the object an object token holds.
KindOf(token) == IF token = "objFacts" THEN "facts" ELSE "product"

\* Whether a text is exactly one JSON value, given the object tokens that
\* parse: a lone object, or brackets around nothing or around one value.
RECURSIVE IsValue(_, _)
IsValue(text, parsable) ==
  \/ Len(text) = 1 /\ text[1] \in parsable
  \/ /\ Len(text) >= 2
     /\ text[1] = "["
     /\ text[Len(text)] = "]"
     /\ \/ Len(text) = 2
        \/ IsValue(SubSeq(text, 2, Len(text) - 1), parsable)

ParseWith(text, parsable) ==
  IF IsValue(text, parsable)
  THEN Success(IF Len(text) = 1 THEN KindOf(text[1]) ELSE "array")
  ELSE Failure

\* JSON.parse
JsonParse(text) == ParseWith(text, {"objProduct", "objFacts"})

\* JSON5.parse: also takes the trailing comma.
Json5Parse(text) == ParseWith(text, {"objProduct", "objFacts", "objTrailingComma"})

\* The least index at which a token of the set stands after index from, or
\* 0 when there is none (where indexOf gives -1).
IndexOf(text, tokens, from) ==
  IF \E k \in (from + 1)..Len(text) : text[k] \in tokens
  THEN CHOOSE k \in (from + 1)..Len(text) :
         /\ text[k] \in tokens
         /\ \A j \in (from + 1)..(k - 1) : text[j] \notin tokens
  ELSE 0

\* text.indexOf('{')
FirstBrace(text) == IndexOf(text, ObjectTokens, 0)

\* isLikelyProductExtraction on a parsed value.
IsLikelyProduct(data) == data = "product"

\* Strategy 1
TryDirectParse(text) == JsonParse(text)

\* Strategy 2: the object that opens at the first brace.  findBalancedJSON
\* ends it at its own closing brace.
ExtractBalancedBraces(text) ==
  IF FirstBrace(text) = 0 THEN Failure
  ELSE JsonParse(<<text[FirstBrace(text)]>>)

\* content.startsWith('{')
StartsWithBrace(content) == Len(content) >= 1 /\ content[1] \in ObjectTokens

Rest(text, k) == SubSeq(text, k + 1, Len(text))

\* Strategy 3.  A JSON.parse that throws inside any branch ends the strategy.
ExtractFromCodeBlock(text) ==
  LET jsonFence == IndexOf(text, {"jsonFence"}, 0)
      jsonClose == IF jsonFence = 0 THEN 0 ELSE IndexOf(text, Fences, jsonFence)
      fence == IndexOf(text, Fences, 0)
      close == IF fence = 0 THEN 0 ELSE IndexOf(text, Fences, fence)
      generic == SubSeq(text, fence + 1, close - 1)
  IN  IF jsonClose # 0
        THEN JsonParse(SubSeq(text, jsonFence + 1, jsonClose - 1))
      ELSE IF close # 0 /\ text[fence] = "fence" /\ StartsWithBrace(generic)
        THEN JsonParse(generic)
      ELSE IF jsonFence # 0 /\ StartsWithBrace(Rest(text, jsonFence))
        THEN JsonParse(Rest(text, jsonFence))
      ELSE IF fence # 0 /\ text[fence] = "fence" /\ StartsWithBrace(Rest(text, fence))
        THEN JsonParse(Rest(text, fence))
      ELSE Failure

\* One replace of extractWithCleanup on one token.
WithoutPhrase(token) == IF token = "objPhrase" THEN "objProduct" ELSE token

\* The text after the six replaces: the phrases are gone, and so is
\* everything from "let me know if you need" on.
Cleaned(text) ==
  LET cut == IndexOf(text, {"letMeKnow"}, 0)
      kept == IF cut = 0 THEN text ELSE SubSeq(text, 1, cut - 1)
      IsKept(token) == token # "phrase"
  IN  [k \in DOMAIN SelectSeq(kept, IsKept) |-> WithoutPhrase(SelectSeq(kept, IsKept)[k])]

\* Strategy 4
ExtractWithCleanup(text) ==
  IF TryDirectParse(Cleaned(text)).success
  THEN TryDirectParse(Cleaned(text))
  ELSE ExtractBalancedBraces(Cleaned(text))

\* Strategy 5: the three repairs mend the raw newline and nothing else.
RepairCommonJSONErrors(text) ==
  IF FirstBrace(text) = 0 THEN Failure
  ELSE LET token == text[FirstBrace(text)]
       IN  JsonParse(<<IF token = "objNewline" THEN "objProduct" ELSE token>>)

\* Strategy 6
TryJSON5Parse(text) ==
  IF FirstBrace(text) = 0 THEN Failure
  ELSE Json5Parse(<<text[FirstBrace(text)]>>)

NoParseResult == [success |-> FALSE, data |-> "none", strategy |-> "none"]

Named(result, strategy) ==
  [success |-> TRUE, data |-> result.data, strategy |-> strategy]

\* Mutant: the code block is looked for before the balanced braces.
ExtractAllStrategiesCodeBlockFirst(text) ==
  LET Passes(result) == result.success /\ IsLikelyProduct(result.data) IN
  IF Passes(TryDirectParse(text)) THEN Named(TryDirectParse(text), "directParse")
  ELSE IF Passes(ExtractFromCodeBlock(text))
    THEN Named(ExtractFromCodeBlock(text), "codeBlock")
  ELSE IF Passes(ExtractBalancedBraces(text))
    THEN Named(ExtractBalancedBraces(text), "balancedBraces")
  ELSE IF Passes(ExtractWithCleanup(text))
    THEN Named(ExtractWithCleanup(text), "cleanup")
  ELSE IF Passes(RepairCommonJSONErrors(text))
    THEN Named(RepairCommonJSONErrors(text), "repair")
  ELSE IF Passes(TryJSON5Parse(text)) THEN Named(TryJSON5Parse(text), "json5")
  ELSE NoParseResult

ExtractAllStrategies(text) ==
  LET Passes(result) == result.success /\ IsLikelyProduct(result.data) IN
  IF Passes(TryDirectParse(text)) THEN Named(TryDirectParse(text), "directParse")
  ELSE IF Passes(ExtractBalancedBraces(text))
    THEN Named(ExtractBalancedBraces(text), "balancedBraces")
  ELSE IF Passes(ExtractFromCodeBlock(text))
    THEN Named(ExtractFromCodeBlock(text), "codeBlock")
  ELSE IF Passes(ExtractWithCleanup(text))
    THEN Named(ExtractWithCleanup(text), "cleanup")
  ELSE IF Passes(RepairCommonJSONErrors(text))
    THEN Named(RepairCommonJSONErrors(text), "repair")
  ELSE IF Passes(TryJSON5Parse(text)) THEN Named(TryJSON5Parse(text), "json5")
  ELSE NoParseResult

\* ---- GrokExtractor.parseSupplementFacts ----
\* response.lastIndexOf('}'), 0 when there is no brace.
LastBrace(text) ==
  IF FirstBrace(text) = 0 THEN 0
  ELSE CHOOSE k \in DOMAIN text :
         /\ text[k] \in ObjectTokens
         /\ \A j \in (k + 1)..Len(text) : text[j] \notin ObjectTokens

\* Strategy 4 of the verification parser: JSON5 on the span from the first
\* opening brace to the last closing one.
BraceSpanJSON5(text) ==
  IF FirstBrace(text) = 0 THEN Failure
  ELSE Json5Parse(SubSeq(text, FirstBrace(text), LastBrace(text)))

\* The parser's check of the parsed value: servings, servingsPerContainer or
\* nutrients is there.
HasSupplementFactsFields(data) == data = "facts"

\* The four strategies in the parser's order, each as it is applied.
GrokCandidates(text) ==
  <<ExtractFromCodeBlock(text), ExtractBalancedBraces(text), JsonParse(text),
    BraceSpanJSON5(text)>>

\* The first strategy that parses sets data; the fields are checked once,
\* after the last strategy.  A thrown error is the failure of the call.
ParseSupplementFacts(rawResponse) ==
  LET candidates == GrokCandidates(rawResponse)
      parsed == {k \in DOMAIN candidates : candidates[k].success}
      first == CHOOSE k \in parsed : \A j \in parsed : k <= j
  IN  IF parsed = {} THEN NoParseResult
      ELSE IF HasSupplementFactsFields(candidates[first].data)
        THEN Named(candidates[first], "verification")
      ELSE NoParseResult

\* AIExtractor.extractJSON on a response of the primary provider.
ExtractJSON ==
  /\ parser = "none"
  /\ \E text \in Texts :
       /\ response' = text
       /\ parseResult' = ExtractAllStrategies(text)
  /\ parser' = "extractAllStrategies"
  /\ UNCHANGED <<rlVars, retryVars, batchVars, itemVars, salvageVars, pureVars>>

\* GrokExtractor.extractSupplementFacts on a response of the verification
\* provider.
ExtractSupplementFacts ==
  /\ parser = "none"
  /\ \E text \in Texts :
       /\ response' = text
       /\ parseResult' = ParseSupplementFacts(text)
  /\ parser' = "parseSupplementFacts"
  /\ UNCHANGED <<rlVars, retryVars, batchVars, itemVars, salvageVars, pureVars>>

\* The extractor has taken the parser's result; the next response is
\* parsed afresh.
ParseResultTaken ==
  /\ parser # "none"
  /\ parser' = "none"
  /\ response' = <<>>
  /\ parseResult' = NoParseResult
  /\ UNCHANGED <<rlVars, retryVars, batchVars, itemVars, salvageVars, pureVars>>

InitCascade ==
  /\ parser = "none"
  /\ response = <<>>
  /\ parseResult = NoParseResult

NextCascade ==
  \/ ExtractJSON
  \/ ExtractSupplementFacts
  \/ ParseResultTaken

----------------------------------------------------------------------------
InitRetry ==
  /\ rpc = "idle"
  /\ fn = "none"
  /\ fnError = {}
  /\ fnFailures = 0
  /\ maxRetries = MAX_RETRIES
  /\ config = DefaultRetryConfig
  /\ currentAttempt = 0
  /\ invocations = 0
  /\ delays = <<>>
  /\ retryResult = [kind |-> "none"]
  /\ itemResult = "none"

InitRL ==
  /\ requestTimes = <<>>
  /\ grokRequestTimes = [t \in Tasks |-> <<>>]
  /\ tpc = [t \in Tasks |-> "idle"]
  /\ wake = [t \in Tasks |-> 0]
  /\ started = 0
  /\ waited = [t \in Tasks |-> FALSE]
  /\ admitted = [claude |-> <<>>, grok |-> <<>>]

NextRL ==
  \/ \E t \in Tasks : StartItem(t)
  \/ \E t \in Tasks : AcquireClaude(t)
  \/ \E t \in Tasks : NewGrokExtractor(t)
  \/ \E t \in Tasks : AcquireGrok(t)
  \/ \E t \in Tasks : FinishItem(t)
  \/ \E t \in Tasks : TimerFires(t)
  \/ Advance

----------------------------------------------------------------------------
(* ProductRepository.addToReviewQueue called on lists of any severities *)

MaxCount == 2   \* findings of one severity in one list range over 0..MaxCount

\* What discrepancies.filter(d => d.severity === s).length can be, for the
\* three severities, over the lists of the bound.
FindingCounts == [high : 0..MaxCount, medium : 0..MaxCount, low : 0..MaxCount]

NoCall == [discrepancies |-> NoFindings, validationWarnings |-> NoFindings]

\* addToReviewQueue(productId, productCode, discrepancies, validationWarnings)
\* runs its upsert on the product's row; an undefined validationWarnings is
\* the empty list.
AddToReviewQueueCalled ==
  /\ qpc = "idle"
  /\ \E discrepancies \in FindingCounts, validationWarnings \in FindingCounts :
       /\ findings' = [discrepancies |-> discrepancies,
                       validationWarnings |-> validationWarnings]
       /\ queueEntry' = AddToReviewQueue(queueEntry, discrepancies, validationWarnings)
  /\ qpc' = "stored"
  /\ UNCHANGED <<rlVars, retryVars, batchVars, itemVars, salvageVars, cascadeVars,
                 compareVars, textVars>>

\* The caller goes on; the row stays in the table.
ReviewQueued ==
  /\ qpc = "stored"
  /\ qpc' = "idle"
  /\ findings' = NoCall
  /\ UNCHANGED queueEntry
  /\ UNCHANGED <<rlVars, retryVars, batchVars, itemVars, salvageVars, cascadeVars,
                 compareVars, textVars>>

InitQueue ==
  /\ qpc = "idle"
  /\ findings = NoCall
  /\ queueEntry = NoReviewEntry

NextQueue ==
  \/ AddToReviewQueueCalled
  \/ ReviewQueued

----------------------------------------------------------------------------
(***************************************************************************)
(* ComparisonEngine.compareSupplementFacts.                                *)
(*                                                                         *)
(* A nullable string is a string, "" standing for null, undefined and the *)
(* empty string alike (the code reads every nutrient field as `x || null`).*)
(* Of the four text fields the model keeps servings, the other three being *)
(* equal in both structures; of the two daily-value fields it keeps        *)
(* dailyValuePercentAdult, dailyValuePercentChildren being treated alike.  *)
(***************************************************************************)
MaxCompared == 2   \* nutrients of a compared structure

NameSamples == {"Vitamin A (as beta carotene)", "Vitamin A (as retinol)", "Zinc"}
AmountSamples == {"", "100 mg", "500 mcg", "trace"}
PercentSamples == {"", "50%", "N/A"}
ServingsSamples == {"1 capsule", "1 Capsule"}

\* name.toLowerCase().replace(/\(.*?\)/g, '').replace(/[^a-z0-9]/g, '')
\*   .replace(/vitamin/g, 'vit').trim()
NormalizeNutrientName(name) ==
  IF name \in {"Vitamin A (as beta carotene)", "Vitamin A (as retinol)"}
  THEN "vita"
  ELSE "zinc"

NoAmount == [matched |-> FALSE, value |-> 0, unit |-> ""]

\* amount.match(/^<?(\d+(?:\.\d+)?)\s*([a-zA-Z...]+)/): value and unit, or null
ParseAmount(amount) ==
  IF amount = "100 mg" THEN [matched |-> TRUE, value |-> 100, unit |-> "mg"]
  ELSE IF amount = "500 mcg" THEN [matched |-> TRUE, value |-> 500, unit |-> "mcg"]
  ELSE NoAmount

\* equivalents[unit] || unit, compared
UnitsEquivalent(unit1, unit2) ==
  LET Norm(u) == IF u \in {"mcg", "ug"} THEN "ug" ELSE u
  IN  Norm(unit1) = Norm(unit2)

\* ComparisonEngine.amountsMatch
AmountsMatch(amount1, amount2) ==
  IF amount1 = "" /\ amount2 = "" THEN TRUE
  ELSE IF amount1 = "" \/ amount2 = "" THEN FALSE
  ELSE LET parsed1 == ParseAmount(amount1)
           parsed2 == ParseAmount(amount2)
           diff == IF parsed1.value >= parsed2.value
                   THEN parsed1.value - parsed2.value
                   ELSE parsed2.value - parsed1.value
       IN  IF ~parsed1.matched \/ ~parsed2.matched THEN FALSE
           ELSE IF ~UnitsEquivalent(parsed1.unit, parsed2.unit) THEN FALSE
           ELSE 100 * diff <= parsed1.value

\* parseFloat(percent.replace(/[^0-9.]/g, '')); -1 stands for NaN
PercentNumber(percent) == IF percent = "50%" THEN 50 ELSE -1

\* ComparisonEngine.percentagesMatch
PercentagesMatch(percent1, percent2) ==
  IF percent1 = "" /\ percent2 = "" THEN TRUE
  ELSE IF percent1 = "" \/ percent2 = "" THEN FALSE
  ELSE LET num1 == PercentNumber(percent1)
           num2 == PercentNumber(percent2)
       IN  IF num1 = -1 \/ num2 = -1 THEN FALSE
           ELSE num1 - num2 <= 1 /\ num2 - num1 <= 1

Discrepancy(fieldPath, type, severity) ==
  [fieldPath |-> fieldPath, type |-> type, severity |-> severity]

\* value?.toLowerCase().replace(/\s+/g, ' ').trim()
LowerCase(value) == IF value = "1 Capsule" THEN "1 capsule" ELSE value

\* ComparisonEngine.compareTextField
CompareTextField(fieldPath, value1, value2) ==
  IF value1 = value2 THEN <<>>
  ELSE IF LowerCase(value1) = LowerCase(value2) THEN <<>>
  ELSE <<Discrepancy(fieldPath, "different", "low")>>

\* new Map(nutrients.map(n => [normalizeNutrientName(n.name), n])).get(name):
\* the last nutrient of that normalized name; 0 when there is none.
MapGet(nutrients, normalizedName) ==
  LET hits == {k \in DOMAIN nutrients :
                 NormalizeNutrientName(nutrients[k].name) = normalizedName}
  IN  IF hits = {} THEN 0 ELSE CHOOSE k \in hits : \A j \in hits : j <= k

\* The body of claudeNutrients.forEach for the nutrient at `index`.
CompareNutrient(claudeNutrients, grokNutrients, index) ==
  LET claudeNutrient == claudeNutrients[index]
      found == MapGet(grokNutrients, NormalizeNutrientName(claudeNutrient.name))
      grokNutrient == grokNutrients[found]
  IN  IF found = 0
      THEN <<Discrepancy(<<"nutrients", index, "">>, "missing", "high")>>
      ELSE (IF AmountsMatch(claudeNutrient.amount, grokNutrient.amount) THEN <<>>
            ELSE <<Discrepancy(<<"nutrients", index, "amount">>, "different", "high")>>)
           \o
           (IF PercentagesMatch(claudeNutrient.dailyValuePercentAdult,
                                grokNutrient.dailyValuePercentAdult) THEN <<>>
            ELSE <<Discrepancy(<<"nutrients", index, "dailyValuePercentAdult">>,
                               "different", "medium")>>)

\* The body of grokNutrients.forEach for the nutrient at `index`.
ExtraNutrient(claudeNutrients, grokNutrients, index) ==
  IF MapGet(claudeNutrients, NormalizeNutrientName(grokNutrients[index].name)) = 0
  THEN <<Discrepancy(<<"nutrients", index, "grok">>, "extra", "high")>>
  ELSE <<>>

RECURSIVE ClaudeAgainstGrok(_, _, _)
ClaudeAgainstGrok(claudeNutrients, grokNutrients, index) ==
  IF index > Len(claudeNutrients) THEN <<>>
  ELSE CompareNutrient(claudeNutrients, grokNutrients, index)
         \o ClaudeAgainstGrok(claudeNutrients, grokNutrients, index + 1)

RECURSIVE ExtrasInGrok(_, _, _)
ExtrasInGrok(claudeNutrients, grokNutrients, index) ==
  IF index > Len(grokNutrients) THEN <<>>
  ELSE ExtraNutrient(claudeNutrients, grokNutrients, index)
         \o ExtrasInGrok(claudeNutrients, grokNutrients, index + 1)

\* ComparisonEngine.compareNutrients
CompareNutrients(claudeNutrients, grokNutrients) ==
  ClaudeAgainstGrok(claudeNutrients, grokNutrients, 1)
    \o ExtrasInGrok(claudeNutrients, grokNutrients, 1)

\* ComparisonEngine.countTotalFields
CountTotalFields(data) == 4 + Len(data.nutrients) * 3

CountOf(discrepancies, severity) ==
  Cardinality({k \in DOMAIN discrepancies : discrepancies[k].severity = severity})

\* ComparisonEngine.calculateSimilarityScore, in tenths of a point: weights
\* 1, 0.5 and 0.25 are counted in quarters, and Math.round(score * 10) / 10
\* is floor(score * 10 + 0.5).
CalculateSimilarityScore(claudeFacts, discrepancies) ==
  LET totalFields == CountTotalFields(claudeFacts)
      quarters == 4 * CountOf(discrepancies, "high")
                    + 2 * CountOf(discrepancies, "medium")
                    + CountOf(discrepancies, "low")
  IN  IF totalFields = 0 THEN 1000
      ELSE IF quarters >= 4 * totalFields THEN 0
      ELSE (2 * 1000 * (4 * totalFields - quarters) + 4 * totalFields)
             \div (2 * 4 * totalFields)

\* ComparisonEngine.compareSupplementFacts, without fieldCounts
CompareSupplementFacts(claudeFacts, grokFacts) ==
  LET discrepancies ==
        CompareTextField("servings", claudeFacts.servings, grokFacts.servings)
          \o CompareNutrients(claudeFacts.nutrients, grokFacts.nutrients)
      similarityScore == CalculateSimilarityScore(claudeFacts, discrepancies)
  IN  [hasDiscrepancies |-> Len(discrepancies) > 0,
       discrepancies |-> discrepancies,
       similarityScore |-> similarityScore,
       recommendsReview |-> \/ CountOf(discrepancies, "high") > 0
                            \/ CountOf(discrepancies, "medium") > 2
                            \/ similarityScore < 850]

ComparedNutrients ==
  [name : NameSamples, amount : AmountSamples, dailyValuePercentAdult : PercentSamples]

FactsSamples ==
  [servings : ServingsSamples, nutrients : SeqsUpTo(ComparedNutrients, MaxCompared)]

\* What the second provider may return for the same label: the same
\* structure, or one that differs in its servings text or lacks nutrients.
GrokSamples(claudeFacts) ==
  {claudeFacts} \cup
  {[servings |-> s, nutrients |-> SubSeq(claudeFacts.nutrients, 1, k)] :
     s \in ServingsSamples, k \in 0..Len(claudeFacts.nutrients)}

NoFacts == [servings |-> "", nutrients |-> <<>>]
NoCompared == [claude |-> NoFacts, grok |-> NoFacts]
NoComparisonResult ==
  [hasDiscrepancies |-> FALSE, discrepancies |-> <<>>, similarityScore |-> 0,
   recommendsReview |-> FALSE]

\* comparisonEngine.compareSupplementFacts(claude, grok) is called and returns.
CompareCalled ==
  /\ cpc = "idle"
  /\ \E claudeFacts \in FactsSamples :
       \E grokFacts \in GrokSamples(claudeFacts) :
         /\ compared' = [claude |-> claudeFacts, grok |-> grokFacts]
         /\ comparison' = CompareSupplementFacts(claudeFacts, grokFacts)
  /\ cpc' = "returned"
  /\ UNCHANGED <<rlVars, retryVars, batchVars, itemVars, salvageVars, cascadeVars,
                 queueVars, textVars>>

\* The caller has taken the result.
ComparisonTaken ==
  /\ cpc = "returned"
  /\ cpc' = "idle"
  /\ compared' = NoCompared
  /\ comparison' = NoComparisonResult
  /\ UNCHANGED <<rlVars, retryVars, batchVars, itemVars, salvageVars, cascadeVars,
                 queueVars, textVars>>

InitCompare ==
  /\ cpc = "idle"
  /\ compared = NoCompared
  /\ comparison = NoComparisonResult

NextCompare ==
  \/ CompareCalled
  \/ ComparisonTaken

----------------------------------------------------------------------------
(***************************************************************************)
(* json-extractor, character by character: findBalancedJSON, the three     *)
(* repairs of repairCommonJSONErrors, and JSON.parse.                      *)
(*                                                                         *)
(* A text is a sequence of characters; "quote" is the double quote,        *)
(* "backslash" the backslash, "newline" a raw line feed, "a" and "n" are   *)
(* letters.  Indexes are those of the code (the first character is at 0).  *)
(* JSON.parse is modelled on objects and strings, which is all the texts   *)
(* of the model are made of.                                               *)
(***************************************************************************)
MaxContent == 2   \* pieces of the string value of a generated object
MaxRest == 3      \* characters after the opening brace of an arbitrary text

MaxStringLength == 2000

CharAt(text, idx) == text[idx + 1]

RECURSIVE ScanBraces(_, _, _, _, _)
\* The loop of findBalancedJSON from index idx on.
ScanBraces(text, idx, braceCount, inString, escaped) ==
  IF idx >= Len(text) THEN -1
  ELSE LET char == CharAt(text, idx) IN
       IF escaped THEN ScanBraces(text, idx + 1, braceCount, inString, FALSE)
       ELSE IF char = "backslash"
       THEN ScanBraces(text, idx + 1, braceCount, inString, TRUE)
       ELSE IF char = "quote"
       THEN ScanBraces(text, idx + 1, braceCount, ~inString, FALSE)
       ELSE IF ~inString /\ char = "{"
       THEN ScanBraces(text, idx + 1, braceCount + 1, inString, FALSE)
       ELSE IF ~inString /\ char = "}"
       THEN IF braceCount - 1 = 0 THEN idx + 1
            ELSE ScanBraces(text, idx + 1, braceCount - 1, inString, FALSE)
       ELSE ScanBraces(text, idx + 1, braceCount, inString, FALSE)

\* findBalancedJSON(text, startIndex)
FindBalancedJSON(text, startIndex) == ScanBraces(text, startIndex, 0, FALSE, FALSE)

RECURSIVE RepairNewlinesFrom(_, _, _, _)
\* The loop of repairUnescapedNewlines; a carriage return is not among the
\* characters of the model.
RepairNewlinesFrom(text, idx, inString, escaped) ==
  IF idx >= Len(text) THEN <<>>
  ELSE LET char == CharAt(text, idx) IN
       IF escaped THEN <<char>> \o RepairNewlinesFrom(text, idx + 1, inString, FALSE)
       ELSE IF char = "backslash"
       THEN <<char>> \o RepairNewlinesFrom(text, idx + 1, inString, TRUE)
       ELSE IF char = "quote"
       THEN <<char>> \o RepairNewlinesFrom(text, idx + 1, ~inString, FALSE)
       ELSE IF inString /\ char = "newline"
       THEN <<"backslash", "n">> \o RepairNewlinesFrom(text, idx + 1, inString, FALSE)
       ELSE <<char>> \o RepairNewlinesFrom(text, idx + 1, inString, FALSE)

RepairUnescapedNewlines(text) == RepairNewlinesFrom(text, 0, FALSE, FALSE)

\* currentStringContent, cut to maxStringLength - 3 characters and '...'
\* when it is longer than maxStringLength.
Truncated(content) ==
  IF Len(content) > MaxStringLength
  THEN SubSeq(content, 1, MaxStringLength - 3) \o <<".", ".", ".">>
  ELSE content

RECURSIVE TruncateFrom(_, _, _, _, _)
\* The loop of truncateLongStrings and its closing of a string the text ends
\* in.
TruncateFrom(text, idx, inString, escaped, content) ==
  IF idx >= Len(text)
  THEN IF inString THEN Truncated(content) \o <<"quote">> ELSE <<>>
  ELSE LET char == CharAt(text, idx) IN
       IF escaped
       THEN IF inString
            THEN TruncateFrom(text, idx + 1, inString, FALSE,
                              content \o <<"backslash", char>>)
            ELSE <<"backslash", char>>
                   \o TruncateFrom(text, idx + 1, inString, FALSE, content)
       ELSE IF char = "backslash"
       THEN TruncateFrom(text, idx + 1, inString, TRUE, content)
       ELSE IF char = "quote"
       THEN IF ~inString
            THEN <<char>> \o TruncateFrom(text, idx + 1, TRUE, FALSE, <<>>)
            ELSE Truncated(content) \o <<char>>
                   \o TruncateFrom(text, idx + 1, FALSE, FALSE, <<>>)
       ELSE IF inString
       THEN TruncateFrom(text, idx + 1, inString, FALSE, content \o <<char>>)
       ELSE <<char>> \o TruncateFrom(text, idx + 1, inString, FALSE, content)

TruncateLongStrings(text) == TruncateFrom(text, 0, FALSE, FALSE, <<>>)

RECURSIVE CloseStringsFrom(_, _, _, _)
\* The loop of repairUnterminatedStrings: a comma, a closing brace or a
\* closing bracket met inside a string closes the string.
CloseStringsFrom(text, idx, inString, escaped) ==
  IF idx >= Len(text)
  THEN IF inString THEN <<"quote">> ELSE <<>>
  ELSE LET char == CharAt(text, idx) IN
       IF escaped THEN <<char>> \o CloseStringsFrom(text, idx + 1, inString, FALSE)
       ELSE IF char = "backslash"
       THEN <<char>> \o CloseStringsFrom(text, idx + 1, inString, TRUE)
       ELSE IF char = "quote"
       THEN <<char>> \o CloseStringsFrom(text, idx + 1, ~inString, FALSE)
       ELSE IF inString /\ char \in {",", "}", "]"}
       THEN <<"quote", char>> \o CloseStringsFrom(text, idx + 1, FALSE, FALSE)
       ELSE <<char>> \o CloseStringsFrom(text, idx + 1, inString, FALSE)

RepairUnterminatedStrings(text) == CloseStringsFrom(text, 0, FALSE, FALSE)

\* ---- JSON.parse on objects and strings ----
NoJson == [t |-> "none", chars |-> <<>>, members |-> <<>>]
JsonString(chars) == [t |-> "string", chars |-> chars, members |-> <<>>]
JsonObject(members) == [t |-> "object", chars |-> <<>>, members |-> members]

NotParsed == [ok |-> FALSE, next |-> 0, value |-> NoJson]
Parsed(next, value) == [ok |-> TRUE, next |-> next, value |-> value]

RECURSIVE SkipWhitespace(_, _)
SkipWhitespace(text, idx) ==
  IF idx < Len(text) /\ CharAt(text, idx) = "newline"
  THEN SkipWhitespace(text, idx + 1)
  ELSE idx

\* The character an escape sequence stands for.
Unescaped(char) == IF char = "n" THEN "newline" ELSE char

RECURSIVE StringFrom(_, _, _)
\* The characters of a string literal from idx, its opening quote read.
StringFrom(text, idx, chars) ==
  IF idx >= Len(text) THEN NotParsed
  ELSE LET char == CharAt(text, idx) IN
       IF char = "quote" THEN Parsed(idx + 1, JsonString(chars))
       ELSE IF char = "newline" THEN NotParsed
       ELSE IF char = "backslash"
       THEN IF idx + 1 < Len(text)
               /\ CharAt(text, idx + 1) \in {"quote", "backslash", "n"}
            THEN StringFrom(text, idx + 2,
                            Append(chars, Unescaped(CharAt(text, idx + 1))))
            ELSE NotParsed
       ELSE StringFrom(text, idx + 1, Append(chars, char))

RECURSIVE ValueAt(_, _)
RECURSIVE MembersFrom(_, _, _)
\* The members of an object from idx, after its opening brace or a comma.
MembersFrom(text, idx, members) ==
  IF idx >= Len(text) \/ CharAt(text, idx) # "quote" THEN NotParsed
  ELSE LET key == StringFrom(text, idx + 1, <<>>)
           colon == SkipWhitespace(text, key.next)
       IN  IF ~key.ok \/ colon >= Len(text) \/ CharAt(text, colon) # ":"
           THEN NotParsed
           ELSE LET member == ValueAt(text, colon + 1)
                    after == SkipWhitespace(text, member.next)
                    all == Append(members, [key |-> key.value.chars,
                                            value |-> member.value])
                IN  IF ~member.ok \/ after >= Len(text) THEN NotParsed
                    ELSE IF CharAt(text, after) = "}"
                    THEN Parsed(after + 1, JsonObject(all))
                    ELSE IF CharAt(text, after) = ","
                    THEN MembersFrom(text, SkipWhitespace(text, after + 1), all)
                    ELSE NotParsed

ValueAt(text, idx) ==
  LET at == SkipWhitespace(text, idx) IN
  IF at >= Len(text) THEN NotParsed
  ELSE IF CharAt(text, at) = "quote" THEN StringFrom(text, at + 1, <<>>)
  ELSE IF CharAt(text, at) = "{"
  THEN LET first == SkipWhitespace(text, at + 1) IN
       IF first < Len(text) /\ CharAt(text, first) = "}"
       THEN Parsed(first + 1, JsonObject(<<>>))
       ELSE MembersFrom(text, first, <<>>)
  ELSE NotParsed

\* JSON.parse(text): the value, or a SyntaxError.
JsonParseText(text) ==
  LET parsed == ValueAt(text, 0) IN
  IF parsed.ok /\ SkipWhitespace(text, parsed.next) = Len(text)
  THEN [success |-> TRUE, data |-> parsed.value]
  ELSE [success |-> FALSE, data |-> NoJson]

\* text.indexOf('{')
IndexOfBrace(text) ==
  IF \E k \in DOMAIN text : text[k] = "{"
  THEN (CHOOSE k \in DOMAIN text :
          text[k] = "{" /\ \A j \in 1..(k - 1) : text[j] # "{") - 1
  ELSE -1

\* repairCommonJSONErrors
RepairJSONText(text) ==
  LET firstBrace == IndexOfBrace(text)
      endIndex == FindBalancedJSON(text, firstBrace)
      region == SubSeq(text, firstBrace + 1, endIndex)
      repaired == RepairUnterminatedStrings(
                    TruncateLongStrings(RepairUnescapedNewlines(region)))
  IN  IF firstBrace = -1 \/ endIndex = -1
      THEN [success |-> FALSE, data |-> NoJson]
      ELSE JsonParseText(repaired)

\* ---- the texts the model draws from ----
\* What a string literal of a generated object is made of.
Pieces ==
  { <<"a">>, <<",">>, <<"}">>, <<"{">>, <<"backslash", "quote">>,
    <<"backslash", "backslash">>, <<"newline">> }

RECURSIVE Flatten(_)
Flatten(pieces) ==
  IF pieces = <<>> THEN <<>> ELSE Head(pieces) \o Flatten(Tail(pieces))

Contents == { Flatten(pieces) : pieces \in SeqsUpTo(Pieces, MaxContent) }

StringLiteral(content) == <<"quote">> \o content \o <<"quote">>

\* {"a":"..."} and {"a":{"a":"..."}}
ObjectTexts ==
  { <<"{">> \o StringLiteral(<<"a">>) \o <<":">> \o StringLiteral(content)
      \o <<"}">> : content \in Contents }
  \cup
  { <<"{">> \o StringLiteral(<<"a">>) \o <<":", "{">> \o StringLiteral(<<"a">>)
      \o <<":">> \o StringLiteral(content) \o <<"}", "}">> : content \in Contents }

\* What may follow an object in a response.
Trailers == { <<>>, <<"a">>, <<"}">>, <<"quote", "}">>, <<"{", "}">> }

\* An opening brace followed by any characters.
ArbitraryTexts ==
  { <<"{">> \o rest :
      rest \in SeqsUpTo({"{", "}", "quote", "backslash", "a"}, MaxRest) }

ScannedTexts ==
  { prefix \o body \o trailer :
      prefix \in {<<>>, <<"a">>}, body \in ObjectTexts, trailer \in Trailers }
  \cup { prefix \o body : prefix \in {<<>>, <<"a">>}, body \in ArbitraryTexts }

NoInput == [text |-> <<>>, startIndex |-> 0]
NoOutput == [endIndex |-> 0, success |-> FALSE, data |-> NoJson]

\* findBalancedJSON(text, text.indexOf('{')) is called and returns.
FindBalancedJSONCalled ==
  /\ jpc = "idle"
  /\ \E text \in ScannedTexts :
       /\ input' = [text |-> text, startIndex |-> IndexOfBrace(text)]
       /\ output' = [NoOutput EXCEPT
                       !.endIndex = FindBalancedJSON(text, IndexOfBrace(text))]
  /\ jpc' = "findBalancedJSON"
  /\ UNCHANGED <<rlVars, retryVars, batchVars, itemVars, salvageVars, cascadeVars,
                 queueVars, compareVars>>

\* repairCommonJSONErrors(text) is called and returns.
RepairCommonJSONErrorsCalled ==
  /\ jpc = "idle"
  /\ \E text \in ScannedTexts :
       LET result == RepairJSONText(text) IN
       /\ input' = [text |-> text, startIndex |-> 0]
       /\ output' = [endIndex |-> 0, success |-> result.success,
                     data |-> result.data]
  /\ jpc' = "repairCommonJSONErrors"
  /\ UNCHANGED <<rlVars, retryVars, batchVars, itemVars, salvageVars, cascadeVars,
                 queueVars, compareVars>>

\* The caller has taken the result.
TextResultTaken ==
  /\ jpc # "idle"
  /\ jpc' = "idle"
  /\ input' = NoInput
  /\ output' = NoOutput
  /\ UNCHANGED <<rlVars, retryVars, batchVars, itemVars, salvageVars, cascadeVars,
                 queueVars, compareVars>>

InitText ==
  /\ jpc = "idle"
  /\ input = NoInput
  /\ output = NoOutput

NextText ==
  \/ FindBalancedJSONCalled
  \/ RepairCommonJSONErrorsCalled
  \/ TextResultTaken

Init ==
  /\ InitRL /\ InitRetry /\ InitBatch /\ InitItem
  /\ InitSalvage /\ InitCascade
  /\ InitQueue /\ InitCompare /\ InitText

SpecRL == Init /\ [][NextRL]_vars

SpecRetry == Init /\ [][NextRetry]_vars

SpecBatch == Init /\ [][NextBatch]_vars

SpecItem == Init /\ [][NextItem]_vars

SpecSalvage == Init /\ [][NextSalvage]_vars

SpecCascade == Init /\ [][NextCascade]_vars

SpecQueue == Init /\ [][NextQueue]_vars

SpecCompare == Init /\ [][NextCompare]_vars

SpecText == Init /\ [][NextText]_vars

\* Every processSinglePDF promise eventually settles (each provider call
\* returns or fails), and the event loop resumes a loop whose awaited
\* promise has settled.
FairSpecBatch ==
  /\ SpecBatch
  /\ \A pdf \in Pdfs : WF_vars(ItemSettles(pdf))
  /\ WF_vars(WindowDone)
  /\ WF_vars(RetryItemDone)

\* Time keeps advancing, and the event loop runs every task whose timer has
\* fired or that is inside acquire().
FairSpecRL ==
  /\ SpecRL
  /\ WF_vars(Advance)
  /\ \A t \in Tasks : WF_vars(AcquireClaude(t))
  /\ \A t \in Tasks : WF_vars(AcquireGrok(t))
  /\ \A t \in Tasks : WF_vars(TimerFires(t))

----------------------------------------------------------------------------
(* Claims about the rate limiter *)

\* The admissions of `log` inside the 60-second interval that ends at its
\* k-th admission.
InWindow(log, k) ==
  {j \in DOMAIN log : log[j] > log[k] - WindowMs /\ log[j] <= log[k]}

WithinCeiling(log, ceiling) ==
  \A k \in DOMAIN log : Cardinality(InWindow(log, k)) <= ceiling

\* C1: for the one RateLimiter instance shared by all tasks, in every
\* reachable state every rolling 60-second interval holds at most
\* maxRequestsPerMinute recorded admissions, however the tasks interleave
\* at the wait inside acquire().
C1_NoOverAdmission == WithinCeiling(admitted.claude, RateLimitPerMinute)

\* Two tasks are inside acquire() of the shared limiter at once, the window
\* is full and one of them has been put to sleep.
C1_Witness ==
  /\ Len(admitted.claude) = RateLimitPerMinute
  /\ \E t, u \in Tasks :
       /\ t # u
       /\ tpc[t] = "sleepClaude"
       /\ tpc[u] \in {"acquireClaude", "sleepClaude"}

\* C9: for each provider, the admissions of all item tasks of the run stay
\* within that provider's per-minute ceiling in every rolling 60 seconds.
C9_PerProviderCeiling ==
  /\ WithinCeiling(admitted.claude, RateLimitPerMinute)
  /\ WithinCeiling(admitted.grok, GrokRateLimitPerMinute)

Acquiring(t) == tpc[t] \in {"acquireClaude", "sleepClaude", "acquireGrok", "sleepGrok"}

\* C10: every call to acquire() eventually returns with the caller admitted,
\* provided time keeps advancing.
C10_AcquireReturns == \A t \in Tasks : Acquiring(t) ~> ~Acquiring(t)

\* A caller that found the window full and slept has been admitted.
C10_Witness == \E t \in Tasks : tpc[t] = "newGrok" /\ waited[t]

----------------------------------------------------------------------------
(* Claims about the retry controller *)

Started == rpc # "idle" /\ fn = "operation"

\* C2: a failure classified INVALID_FILE, VALIDATION or UNKNOWN is propagated
\* after exactly one invocation of the operation, with no backoff delay;
\* only RATE_LIMIT, TIMEOUT, NETWORK and API_ERROR failures cause another
\* invocation.
C2_NonRetryablePropagatesAtOnce ==
  (Started /\ fnFailures >= 1 /\ ~IsRetryable(fnError)) =>
     /\ invocations <= 1
     /\ delays = <<>>
     /\ rpc # "sleeping"

\* C3 as claimed: at most maxRetries invocations in total, the first counted.
C3_AtMostMaxRetriesInvocations ==
  (Started /\ IsRetryable(fnError)) => invocations <= maxRetries

\* C3 as amended: at most maxRetries + 1 invocations in total (the first one
\* and maxRetries retries); when every invocation fails, withRetry stops after
\* exactly that many and throws the last failure.
C3_AtMostMaxRetriesPlusOne ==
  Started =>
    /\ invocations <= maxRetries + 1
    /\ Len(delays) <= maxRetries
    /\ rpc = "thrown" =>
         /\ invocations = maxRetries + 1
         /\ retryResult = [kind |-> "error", success |-> FALSE, error |-> fnError]
    /\ (rpc = "returned" /\ fnFailures > maxRetries) => FALSE

\* The default configuration, every invocation failing: the fourth failure
\* is thrown.
C3_Witness ==
  /\ Started
  /\ maxRetries = MAX_RETRIES
  /\ fnFailures > maxRetries
  /\ rpc = "thrown"
  /\ invocations = maxRetries + 1

\* C4: in processSinglePDF a provider call that fails with a retryable error
\* is invoked again, and the item fails for that reason only after the
\* maximum number of attempts: one retryable failure followed by a call
\* that would succeed never yields a failed item.
C4_RetryableProviderFailureRetried ==
  (fn = "extractProductInfo" /\ itemResult = "failed" /\ IsRetryable(fnError)) =>
     /\ fnFailures # 1
     /\ invocations >= maxRetries

----------------------------------------------------------------------------
(* Claims about the batch orchestrator *)

\* The position of an item in pdfsToProcess and the window it falls in.
Pos(pdf) == CHOOSE k \in DOMAIN pdfsToProcess : pdfsToProcess[k] = pdf
WindowOf(pdf) == (Pos(pdf) - 1) \div options.concurrency

InFlight == {pdf \in Pdfs : task[pdf] = "running"}

\* C5: an item of a later window is started only when every item of every
\* earlier window has settled (true, false or rejected); so at most
\* `concurrency` items are in flight and all of them belong to one window.
C5_WindowsDoNotOverlap ==
  entry = "processAll" =>
  /\ Cardinality(InFlight) <= options.concurrency
  /\ \A p, q \in Range(pdfsToProcess) :
       (WindowOf(p) < WindowOf(q) /\ task[q] # "idle") => task[p] \in Settled
  /\ \A p, q \in InFlight : WindowOf(p) = WindowOf(q)

\* The second window is in flight after a first window of two items of
\* which one was rejected and the other failed.
C5_Witness ==
  /\ entry = "processAll"
  /\ options.concurrency = 2
  /\ \E p, q, r \in Range(pdfsToProcess) :
       /\ WindowOf(p) = 0 /\ task[p] = "rejected"
       /\ WindowOf(q) = 0 /\ task[q] = "false"
       /\ WindowOf(r) = 1 /\ task[r] = "running"

\* The items of the windows that have been counted: those before index i.
Counted == {pdfsToProcess[k] : k \in {k \in DOMAIN pdfsToProcess : k <= i}}

\* C6: every started item is started once and, once its window is counted,
\* has incremented exactly one counter according to its own outcome; the
\* returned summary has successCount + failureCount = totalProcessed = the
\* number of items started.
C6_EachItemCountedOnce ==
  entry = "processAll" =>
  /\ \A pdf \in Pdfs : attempts[pdf] <= 1
  /\ successCount = Cardinality({pdf \in Counted : task[pdf] = "true"})
  /\ failureCount = Cardinality({pdf \in Counted : task[pdf] \in {"false", "rejected"}})
  /\ successCount + failureCount = Cardinality(Counted)
  /\ bpc = "done" =>
       /\ summary.successCount = successCount
       /\ summary.failureCount = failureCount
       /\ summary.successCount + summary.failureCount = summary.totalProcessed
       /\ summary.totalProcessed = Cardinality({pdf \in Pdfs : attempts[pdf] > 0})

\* processAll has returned after a window in which one item was rejected,
\* one failed, and a sibling succeeded.
C6_Witness ==
  /\ entry = "processAll"
  /\ bpc = "done"
  /\ summary.successCount >= 1
  /\ summary.failureCount >= 1
  /\ \E p, q \in Range(pdfsToProcess) :
       /\ WindowOf(p) = WindowOf(q)
       /\ task[p] = "rejected"
       /\ task[q] = "true"

\* C7: once a shutdown signal has set the flag during a run, the items in
\* flight are not cancelled: none of them is abandoned before it settles,
\* and processAll goes on to return a summary that counts them.
C7_ShutdownLeavesInFlightWork ==
  isShuttingDown =>
    /\ \A pdf \in Pdfs : task[pdf] # "killed"
    /\ (\E pdf \in Pdfs : attempts[pdf] > 0) => bpc \in {"awaiting", "done"}

\* The items that pass the filter, and the place of each among them, in scan
\* order (ScanMetadata lists the items in increasing order).
Eligible == {pdf \in 1..options.scanned : pdf \notin completedAtStart}
Rank(pdf) == Cardinality({q \in Eligible : q < pdf}) + 1

\* C8: with skipExisting and limit L >= 1, the list processAll works through
\* is the first min(L, n) of the n items not marked completed, in scan
\* order; no completed item is attempted, no item is attempted twice, a run
\* that returns has attempted exactly that list, and skippedCount is the
\* number of items the filter removed.
C8_FilterThenLimit ==
  (entry = "processAll" /\ options.skipExisting /\ options.limit >= 1) =>
    /\ Len(pdfsToProcess) = Min(options.limit, Cardinality(Eligible))
    /\ \A k \in DOMAIN pdfsToProcess :
         pdfsToProcess[k] \in Eligible /\ Rank(pdfsToProcess[k]) = k
    /\ \A pdf \in Pdfs :
         attempts[pdf] > 0 => (pdf \in Range(pdfsToProcess) /\ attempts[pdf] = 1)
    /\ bpc = "done" =>
         /\ \A pdf \in Range(pdfsToProcess) : attempts[pdf] = 1
         /\ summary.skippedCount = options.scanned - Cardinality(Eligible)

\* Three items scanned, the first already completed, limit 1: the run has
\* returned having attempted the second item only.
C8_Witness ==
  /\ entry = "processAll"
  /\ bpc = "done"
  /\ options.skipExisting
  /\ options.limit = 1
  /\ options.scanned = 3
  /\ completedAtStart = {1}
  /\ attempts = [pdf \in Pdfs |-> IF pdf = 2 THEN 1 ELSE 0]
  /\ summary.skippedCount = 1

C19_SuccessRate ==
  bpc = "done" =>
    LET rate == summary.successRate
        sc == summary.successCount
        fc == summary.failureCount
    IN  /\ ~rate.nan
        /\ IF sc + fc >= 1
           THEN rate.num * (sc + fc) = sc * 100 * rate.den
           ELSE rate.num = 0

\* C19 as amended: the returned summary has successRate = successCount /
\* (successCount + failureCount) * 100 when at least one item was attempted;
\* when none was, successRate is 0 if the scan found no item or retryFailed
\* found no failed product, and 100 if processAll found items and the skip
\* filter left none of them.
C19_SuccessRateAllSkippedIs100 ==
  bpc = "done" =>
    LET rate == summary.successRate
        sc == summary.successCount
        fc == summary.failureCount
    IN  /\ ~rate.nan
        /\ summary.totalProcessed = sc + fc
        /\ summary.totalProcessed = Cardinality({pdf \in Pdfs : attempts[pdf] > 0})
        /\ IF sc + fc >= 1
           THEN rate.num * (sc + fc) = sc * 100 * rate.den
           ELSE IF entry = "processAll" /\ options.scanned > 0
           THEN rate.num = 100 * rate.den /\ summary.skippedCount = options.scanned
           ELSE rate.num = 0

\* processAll has returned 100 after a scan of two items, both of them
\* completed by an earlier run and skipped.
C19_Witness ==
  /\ bpc = "done"
  /\ entry = "processAll"
  /\ options.scanned = 2
  /\ summary.skippedCount = 2
  /\ summary.totalProcessed = 0
  /\ summary.successRate = Literal(100)

Attempted == {pdf \in Pdfs : attempts[pdf] > 0}

\* The position of an item in retryFailed's list.
RetryPos(pdf) == CHOOSE k \in DOMAIN metadata : metadata[k] = pdf

\* C20: retryFailed attempts exactly the items marked failed when it was
\* called: only those (so never one marked completed), each once, one at a
\* time in list order, an item being started only when the one before it has
\* settled; when retryFailed is over, every one of them has been attempted.
C20_RetryFailedAttemptsExactlyFailed ==
  entry = "retryFailed" =>
    /\ \A pdf \in Pdfs : attempts[pdf] <= 1
    /\ Attempted \subseteq failedAtStart
    /\ Cardinality(InFlight) <= 1
    /\ \A p, q \in Attempted \cap Range(metadata) :
         RetryPos(p) < RetryPos(q) => task[p] \in Settled
    /\ bpc \in {"done", "threw"} => Attempted = failedAtStart

----------------------------------------------------------------------------
(* Claims about the persisted outcome and the review queue of an item *)

\* C12: when processSinglePDF has settled on an item, an item that the run
\* counts as a success is recorded with status completed, and an item that
\* it counts as a failure (fulfilled with false, or rejected) is recorded
\* with status failed and a non-empty error message.
C12_OutcomeRecorded ==
  ipc = "settled" =>
    IF IsSuccess(itemOutcome)
    THEN product.extraction_status = "completed"
    ELSE /\ product.extraction_status = "failed"
         /\ product.error_message # ""

\* C13: once the item's review entry has status resolved, no step of a
\* processing run takes the status away from resolved.
C13_ResolvedStaysResolved ==
  [][reviewEntry.review_status = "resolved"
       => reviewEntry'.review_status = "resolved"]_vars

\* C14: a review entry that exists keeps existing, and its status changes
\* only by the resolve action.
C14_ReviewEntryKept ==
  [][reviewEntry.review_status # "absent"
       => /\ reviewEntry'.review_status # "absent"
          /\ reviewEntry'.review_status # reviewEntry.review_status
               => /\ reviewEntry' = MarkReviewResolved(reviewEntry)
                  /\ UNCHANGED <<ipc, product>>]_vars

----------------------------------------------------------------------------
\* ---- strict validation and salvage ----

\* An extractor has validated a recovered value and strict validation failed.
StrictValidationFailed ==
  caller # "none" /\ jsonData # NoValue /\ ProductIssues(jsonData) # {}

\* The members of a recovered value that a salvage parse can carry over: the
\* text members that hold a string, and a nested supplement-facts object.
SalvageableParts(data) ==
  IF data.t # "object" THEN {}
  ELSE {f \in {"productName", "productDescription", "directions", "caution"} :
          IsString(data[f])}
       \cup (IF data.supplementFacts.t = "object" THEN {"supplementFacts"} ELSE {})

\* C15: when strict validation of a recovered value fails and any part of
\* the value can be salvaged, the extraction ends as a success that carries
\* a complete record holding the salvaged text members and a warning for
\* every validation issue; it ends as a failure only when nothing of the
\* value is usable.
C15_SalvagedUnlessNothingUsable ==
  StrictValidationFailed =>
    /\ SalvageableParts(jsonData) # {} =>
         /\ extraction.success
         /\ extraction.data.t = "object"
         /\ \A f \in {"productName", "productDescription", "directions"} :
              /\ IsRequiredString(extraction.data[f])
              /\ IsRequiredString(jsonData[f]) =>
                   extraction.data[f].v \in {jsonData[f].v, EnsureFinalStop(jsonData[f].v)}
         /\ \A issue \in ProductIssues(jsonData) :
              \E w \in extraction.validationWarnings :
                \/ w.fieldPath = issue.path /\ w.index = issue.index
                \/ w.fieldPath = "unknown" /\ w.message = issue.path
    /\ ~extraction.success => SalvageableParts(jsonData) = {}

\* extractProductInfo has salvaged a value without directions and with a
\* nutrient whose amount is a number: the outcome is a success with the
\* default directions and a high-severity warning.
C15_Witness ==
  /\ caller = "extractProductInfo"
  /\ StrictValidationFailed
  /\ jsonData.directions.t = "undefined"
  /\ extraction.success
  /\ extraction.error = "Partial extraction"
  /\ extraction.data.directions = Str("No directions provided.")
  /\ \E w \in extraction.validationWarnings : w.severity = "high"

\* The entries of a nutrients member that are objects with a name.
NamedEntries(nutrients) ==
  IF nutrients.t = "array" THEN SelectSeq(nutrients.v, HasStringName) ELSE <<>>

\* C16: whenever a recovered value fails strict validation and holds a
\* nested supplement-facts object, the outcome is a success whose data has a
\* supplement-facts block with the object's servings, servings per
\* container and calories (a default only where the member is no string)
\* and with every named nutrient entry of the object in source order.
C16_SupplementFactsPreserved ==
  (StrictValidationFailed /\ jsonData.supplementFacts.t = "object") =>
    LET source == jsonData.supplementFacts
        block == extraction.data.supplementFacts
        entries == NamedEntries(source.nutrients)
    IN  /\ extraction.success
        /\ block.t = "object"
        /\ IsRequiredString(source.servings) =>
             block.servings = NormalizeServing(source.servings)
        /\ IsRequiredString(source.servingsPerContainer) =>
             block.servingsPerContainer = NormalizeServing(source.servingsPerContainer)
        /\ IsRequiredString(source.calories) =>
             block.calories = NormalizeWhitespace(source.calories)
        /\ Len(block.nutrients.v) = Len(entries)
        /\ \A k \in DOMAIN entries :
             block.nutrients.v[k].name = NormalizeWhitespace(entries[k].name)

----------------------------------------------------------------------------
\* ---- recovery cascade ----

StrategyOrder ==
  <<"directParse", "balancedBraces", "codeBlock", "cleanup", "repair", "json5">>

\* The candidate of one strategy of extractAllStrategies on a text.
Candidate(strategy, text) ==
  CASE strategy = "directParse" -> TryDirectParse(text)
    [] strategy = "balancedBraces" -> ExtractBalancedBraces(text)
    [] strategy = "codeBlock" -> ExtractFromCodeBlock(text)
    [] strategy = "cleanup" -> ExtractWithCleanup(text)
    [] strategy = "repair" -> RepairCommonJSONErrors(text)
    [] strategy = "json5" -> TryJSON5Parse(text)

\* The places in the order whose candidate parses and passes the shape
\* validator.
AcceptedAt(text) ==
  {k \in DOMAIN StrategyOrder :
     /\ Candidate(StrategyOrder[k], text).success
     /\ IsLikelyProduct(Candidate(StrategyOrder[k], text).data)}

\* C17: extractAllStrategies succeeds exactly when some strategy yields an
\* accepted candidate; it then returns the candidate of the first such
\* strategy in the fixed order and reports that strategy's name, so a text
\* that is exactly well-formed JSON accepted by the validator is reported
\* as directParse.
C17_FirstAcceptedStrategyWins ==
  parser = "extractAllStrategies" =>
    /\ parseResult.success <=> AcceptedAt(response) # {}
    /\ parseResult.success =>
         \E k \in AcceptedAt(response) :
           /\ \A j \in AcceptedAt(response) : k <= j
           /\ parseResult.strategy = StrategyOrder[k]
           /\ parseResult.data = Candidate(StrategyOrder[k], response).data
    /\ (JsonParse(response).success /\ IsLikelyProduct(JsonParse(response).data)) =>
         parseResult.strategy = "directParse"

\* The cascade has passed over a balanced-braces candidate that parsed and
\* was rejected (a supplement-facts object) and returned the product object
\* of the code block that follows it.
C17_Witness ==
  /\ parser = "extractAllStrategies"
  /\ response = <<"objFacts", "jsonFence", "objProduct">>
  /\ parseResult.success
  /\ parseResult.strategy = "codeBlock"
  /\ parseResult.data = "product"

\* C18: when a provider client reports a parse failure, no strategy of its
\* recovery (the two attempts of cleanup-and-retry counted one by one)
\* yields a candidate that parses and passes the client's shape check: a
\* rejected candidate never ends the recovery.
C18_RejectionNeverEndsRecovery ==
  /\ (parser = "extractAllStrategies" /\ ~parseResult.success) =>
       /\ AcceptedAt(response) = {}
       /\ \A attempt \in {TryDirectParse(Cleaned(response)),
                          ExtractBalancedBraces(Cleaned(response))} :
            ~(attempt.success /\ IsLikelyProduct(attempt.data))
  /\ (parser = "parseSupplementFacts" /\ ~parseResult.success) =>
       \A k \in DOMAIN GrokCandidates(response) :
         ~ /\ GrokCandidates(response)[k].success
           /\ HasSupplementFactsFields(GrokCandidates(response)[k].data)

\* C23: a processAll with skipExisting leaves out every item an earlier run
\* recorded as completed and never attempts one; it takes every scanned item
\* recorded as failed, in scan order, up to the run's limit, and a run that
\* returns has attempted each item it took; when every scanned item is
\* recorded as completed it takes, and attempts, none.
C23_CompletedSkippedFailedRetried ==
  [][/\ (bpc = "idle" /\ entry' = "processAll" /\ options'.skipExisting) =>
          /\ \A pdf \in Pdfs :
               dbStatus[pdf] = "completed" => pdf \notin Range(pdfsToProcess')
          /\ \A pdf \in 1..options'.scanned :
               dbStatus[pdf] = "failed" =>
                 \/ pdf \in Range(pdfsToProcess')
                 \/ /\ options'.limit >= 1
                    /\ Len(pdfsToProcess') = options'.limit
                    /\ \A q \in Range(pdfsToProcess') : q < pdf
          /\ (\A pdf \in 1..options'.scanned : dbStatus[pdf] = "completed") =>
               /\ pdfsToProcess' = <<>>
               /\ bpc' = "done"
               /\ summary'.totalProcessed = 0
     /\ (entry' = "processAll" /\ options'.skipExisting) =>
          /\ \A pdf \in completedAtStart' : attempts'[pdf] = 0
          /\ bpc' = "done" =>
               \A pdf \in Range(pdfsToProcess') : attempts'[pdf] = 1
    ]_vars

\* A processAll over three items, all recorded as completed by earlier runs,
\* has returned having attempted none of them.
C23_Witness ==
  /\ entry = "processAll"
  /\ bpc = "done"
  /\ options.skipExisting
  /\ options.scanned = 3
  /\ completedAtStart = {1, 2, 3}
  /\ pdfsToProcess = <<>>
  /\ attempts = NoAttempts
  /\ summary.totalProcessed = 0
  /\ summary.skippedCount = 3

\* C22: the row addToReviewQueue stores has review_priority = 3 * (high
\* validation warnings) + 2 * (high comparison discrepancies) + (medium
\* warnings and discrepancies together); low-severity findings add nothing;
\* one high validation warning alone gives 3, and two high discrepancies
\* with one medium give 5.
C22_ReviewPriority ==
  qpc = "stored" =>
    LET d == findings.discrepancies
        w == findings.validationWarnings
    IN  /\ queueEntry.review_priority = 3 * w.high + 2 * d.high + (w.medium + d.medium)
        /\ queueEntry.review_priority =
             AddToReviewQueue(NoReviewEntry, [d EXCEPT !.low = 0],
                              [w EXCEPT !.low = 0]).review_priority
        /\ (d = NoFindings /\ w = [NoFindings EXCEPT !.high = 1]) =>
             queueEntry.review_priority = 3
        /\ (w = NoFindings /\ d.high = 2 /\ d.medium = 1) =>
             queueEntry.review_priority = 5

\* Two high-severity discrepancies, a medium one and a low one, with no
\* validation warning, are stored with priority 5.
C22_Witness ==
  /\ qpc = "stored"
  /\ findings.discrepancies = [high |-> 2, medium |-> 1, low |-> 1]
  /\ findings.validationWarnings = NoFindings
  /\ queueEntry.review_priority = 5
  /\ queueEntry.total_discrepancies = 4

\* The delay before the jitter that the claim and the code compute from:
\* baseDelay * multiplier^(N-1) for the N-th failed attempt.
Exponential(n) == config.baseDelay * Pow(config.backoffMultiplier, n - 1)

\* C27 as claimed: the delay slept after the N-th failed attempt lies in
\* [baseDelay * multiplier^(N-1), baseDelay * multiplier^(N-1) + maxDelay
\* + 1000], for every N and every configuration.
C27_DelayAtLeastExponential ==
  \A n \in DOMAIN delays :
    /\ delays[n] >= Exponential(n)
    /\ delays[n] <= Exponential(n) + config.maxDelay + 1000

\* C27, amended: the delay slept after the N-th failed attempt is
\* min(baseDelay * multiplier^(N-1), maxDelay) plus a jitter in [0, 1000):
\* it lies in [min(..), min(..) + 1000), so it is below maxDelay + 1000, and
\* it reaches baseDelay * multiplier^(N-1) only while that is at most
\* maxDelay.
C27_DelayIsCappedExponential ==
  \A n \in DOMAIN delays :
    /\ delays[n] >= Min(Exponential(n), config.maxDelay)
    /\ delays[n] < Min(Exponential(n), config.maxDelay) + 1000
    /\ delays[n] < config.maxDelay + 1000
    /\ Exponential(n) <= config.maxDelay => delays[n] >= Exponential(n)
    /\ Exponential(n) > config.maxDelay + 1000 => delays[n] < Exponential(n)

\* Under the default configuration with a cap of 2500 ms, the third failed
\* attempt (exponential delay 4000 ms) has been followed by a sleep of the
\* cap plus jitter.
C27_Witness ==
  /\ rpc = "sleeping"
  /\ config = [DefaultRetryConfig EXCEPT !.maxDelay = 2500]
  /\ Len(delays) = 3
  /\ Exponential(3) = 4000
  /\ delays[3] \in 2500..3499

\* C21: comparing a supplement-facts structure with itself gives
\* similarityScore = 100, hasDiscrepancies = false and no discrepancy,
\* whatever its nutrient names, amounts and daily-value strings are.
C21_SelfComparisonIsClean ==
  (cpc = "returned" /\ compared.claude = compared.grok) =>
    /\ comparison.similarityScore = 1000
    /\ ~comparison.hasDiscrepancies
    /\ comparison.discrepancies = <<>>

\* What the database holds and how the promise settles when the item is
\* persisted with verification disabled, for each way the repository can fail.
WithoutVerification ==
  {PersistBranch(product, reviewEntry, extractionResult, NoComparison,
                 NoGrokResult, faults[1], faults[2]) :
     faults \in Faults(PersistBranchCalls)}

\* C30: when the verification of an item whose extraction succeeded fails
\* (conversion failure, provider error, empty, unparseable or wrongly shaped
\* response, thrown exception), the item is persisted exactly as it is with
\* verification disabled: unless a repository call throws it settles with
\* true, its status is completed, it has no verification data, and its
\* review entry counts its validation warnings only.
C30_VerificationFailureLeavesSuccess ==
  [][(/\ ipc = "verifying"
      /\ ipc' = "settled"
      /\ grokResult'.kind \in VerificationFailures \cup {"malformed"})
     =>
     /\ Settle(product', reviewEntry', itemOutcome') \in WithoutVerification
     /\ itemOutcome' = "true" =>
          /\ product'.extraction_status = "completed"
          /\ product'.verification = "absent"
          /\ reviewEntry'.review_status # "absent" =>
               reviewEntry'.total_discrepancies =
                 Total(extractionResult.validationWarnings)
     /\ itemOutcome' # "true" =>
          \/ product'.error_message = DatabaseError
          \/ itemOutcome' = "rejected"
    ]_vars

----------------------------------------------------------------------------
(* Claims about the raw response of a failed parse *)

\* The call ended because the recovery of its response found no value.
ParsingExhausted == caller # "none" /\ jsonData = NoValue

\* C24: every extraction that ends Failed because the recovery of a response
\* found no value, in the single-call path and in the hybrid path, carries
\* the provider's raw response in its result, which is what the failed item
\* is stored with.
C24_ParseFailureCarriesRawResponse ==
  ParsingExhausted =>
    /\ ~extraction.success
    /\ extraction.rawResponse = "raw"
    /\ RawAiResponse(extraction) = "raw"

\* C25: when the recovery of the response finds no value and the write of
\* the raw response to the debug file fails, the result is what it is when
\* the write succeeds: Failed, with the parse-failure error and the raw
\* response; the error of the file system is not in the result.
C25_SinkFailureNotPropagated ==
  (ParsingExhausted /\ caller = "extractProductInfo" /\ debugFile = "failed") =>
    /\ extraction = ParseFailed("none")
    /\ extraction.error \notin {SinkError(sinkFault) : sinkFault \in SinkFaults}

----------------------------------------------------------------------------
(* Claim about the nutrient amounts of extracted data *)

\* The amounts of the model's samples that are a number followed by a unit.
NumbersWithUnit == {"100 mg", "100mg", "<1 g"}

\* C26: in the data of every success outcome, Succeeded or Salvaged, the
\* amount of each nutrient is absent or a number followed by a unit; never a
\* bare number or a sentinel such as "0", "unknown" or "N/A".
C26_AmountsCarryUnits ==
  (caller # "none" /\ extraction.success
     /\ extraction.data.supplementFacts.t = "object") =>
    \A n \in Range(extraction.data.supplementFacts.nutrients.v) :
      \/ n.amount.t \in {"null", "undefined"}
      \/ IsString(n.amount) /\ n.amount.v \in NumbersWithUnit

----------------------------------------------------------------------------
RECURSIVE ClosingBraceFrom(_, _, _, _, _)
\* The index just after the brace that closes the one at the start, counting
\* braces outside double-quoted strings only; inside a string a backslash
\* takes the next character with it.  -1 when there is no such brace.
ClosingBraceFrom(text, idx, depth, inString, escaped) ==
  IF idx >= Len(text) THEN -1
  ELSE LET char == CharAt(text, idx) IN
       IF inString
       THEN IF escaped THEN ClosingBraceFrom(text, idx + 1, depth, TRUE, FALSE)
            ELSE IF char = "backslash"
            THEN ClosingBraceFrom(text, idx + 1, depth, TRUE, TRUE)
            ELSE ClosingBraceFrom(text, idx + 1, depth, char # "quote", FALSE)
       ELSE IF char = "quote" THEN ClosingBraceFrom(text, idx + 1, depth, TRUE, FALSE)
       ELSE IF char = "{" THEN ClosingBraceFrom(text, idx + 1, depth + 1, FALSE, FALSE)
       ELSE IF char = "}"
       THEN IF depth = 1 THEN idx + 1
            ELSE ClosingBraceFrom(text, idx + 1, depth - 1, FALSE, FALSE)
       ELSE ClosingBraceFrom(text, idx + 1, depth, FALSE, FALSE)

\* C28: findBalancedJSON(text, i), text[i] an opening brace, returns the index
\* just after the brace that closes it, counting only the braces outside
\* double-quoted strings, an escaped quote inside a string not ending the
\* string, and -1 when there is no such brace.
C28_BalancedEndOutsideStrings ==
  jpc = "findBalancedJSON"
    => output.endIndex
         = ClosingBraceFrom(input.text, input.startIndex, 0, FALSE, FALSE)

----------------------------------------------------------------------------
\* The direct parse of the text repairCommonJSONErrors was given.
DirectParse == JsonParseText(input.text)

\* C29: for every text that is already a well-formed JSON object with no
\* string longer than 2,000 characters, whatever its string values contain,
\* repairCommonJSONErrors succeeds and returns a value equal to the direct
\* parse of the text.
C29_RepairKeepsValidJSON ==
  ( /\ jpc = "repairCommonJSONErrors"
    /\ DirectParse.success
    /\ DirectParse.data.t = "object" )
    => /\ output.success
       /\ output.data = DirectParse.data

====
